---- MODULE Spec2Model ----
(***************************************************************************)
(* Model of the AILinks ingestion pipeline (src/App.tsx) and of its record *)
(* store (src/services/dbService.ts).                                      *)
(*                                                                         *)
(* Strings that the code compares (file names, URLs) are records           *)
(*   [scheme, host, path, query]                                           *)
(* so that normalizeUrl can be computed the way the code computes it.  A   *)
(* string that `new URL()` cannot parse has scheme "".  JSON text columns  *)
(* are records [kind, arr]: JSON.stringify builds them and JSON.parse      *)
(* fails on the kinds that are not valid JSON.                             *)
(***************************************************************************)
EXTENDS Integers, Sequences, FiniteSets, TLC

(***************************************************************************)
(* Bounds of the model                                                     *)
(***************************************************************************)
MaxCall == 2
MaxSeq == 3
MaxItems == 2
MaxBatches == 1

MaxQuery == 2

(***************************************************************************)
(* Strings and URLs                                                        *)
(***************************************************************************)
Str(ws, scheme, userinfo, host, port, path, query) ==
  [ws |-> ws, scheme |-> scheme, userinfo |-> userinfo, host |-> host,
   port |-> port, path |-> path, query |-> query]

Param(k, v) == [k |-> k, v |-> v]

EmptyStr == Str(FALSE, "", "", "", "", <<>>, <<>>)

Plain(name) == Str(FALSE, "", "", "", "", <<name>>, <<>>)

Https(host, path, query) == Str(FALSE, "https", "", host, "", path, query)

NULL == "<NULL>"

NumericIds == {"1", "2"}

RECURSIVE SeqToSet(_)
SeqToSet(s) == IF s = <<>> THEN {} ELSE {Head(s)} \cup SeqToSet(Tail(s))

toLowerCase(s) ==
  CASE s = "HTTPS" -> "https"
    [] s = "HTTP" -> "http"
    [] s = "X.COM" -> "x.com"
    [] s = "Twitter.com" -> "twitter.com"
    [] s = "GitHub.com" -> "github.com"
    [] s = "Status" -> "status"
    [] OTHER -> s

defaultPort(scheme) ==
  CASE scheme = "https" -> "443"
    [] scheme = "http" -> "80"
    [] OTHER -> ""

trackingParams == {"t", "s", "utm_source", "utm_medium", "utm_campaign", "ref"}

twitterPattern(url) ==
  /\ ~url.ws
  /\ toLowerCase(url.scheme) \in {"http", "https"}
  /\ url.userinfo = ""
  /\ toLowerCase(url.host) \in {"x.com", "twitter.com"}
  /\ url.port = ""
  /\ Len(url.path) >= 3
  /\ url.path[1] # ""
  /\ toLowerCase(url.path[2]) = "status"
  /\ url.path[3] \in NumericIds

IsKept_KeepsRef(p) == p.k \notin (trackingParams \ {"ref"})

IsKept(p) == p.k \notin trackingParams

parseUrl(url) ==
  LET scheme == toLowerCase(url.scheme)
  IN Str(FALSE, scheme, url.userinfo, toLowerCase(url.host),
         IF url.port = defaultPort(scheme) THEN "" ELSE url.port,
         url.path, url.query)

normalizeUrl_KeepsHost(url) ==
  IF url = EmptyStr THEN url
  ELSE IF twitterPattern(url)
    THEN Https(toLowerCase(url.host), <<url.path[1], "status", url.path[3]>>, <<>>)
  ELSE IF url.scheme = "" THEN url
  ELSE LET urlObj == parseUrl(url)
           kept == SelectSeq(urlObj.query, IsKept)
       IN IF kept = <<>>
            THEN [urlObj EXCEPT !.userinfo = "", !.query = <<>>]
            ELSE [urlObj EXCEPT !.query = kept]

normalizeUrl(url) ==
  IF url = EmptyStr THEN url
  ELSE IF twitterPattern(url)
    THEN Https("x.com", <<url.path[1], "status", url.path[3]>>, <<>>)
  ELSE IF url.scheme = "" THEN url
  ELSE LET urlObj == parseUrl(url)
           kept == SelectSeq(urlObj.query, IsKept)
       IN IF kept = <<>>
            THEN [urlObj EXCEPT !.userinfo = "", !.query = <<>>]
            ELSE [urlObj EXCEPT !.query = kept]

IsNonEmpty(u) == u # EmptyStr

normalizeUrls(urls) ==
  SelectSeq([k \in 1..Len(urls) |-> normalizeUrl(urls[k])], IsNonEmpty)

(***************************************************************************)
(* JSON text columns                                                       *)
(***************************************************************************)
JsonStringify(arr) == [kind |-> "array", arr |-> arr]

JsonNull == [kind |-> "null", arr |-> <<>>]

JsonInvalid == [kind |-> "invalid", arr |-> <<>>]

JsonScalar == [kind |-> "scalar", arr |-> <<>>]

JsonTruthy(t) == t.kind # "null"

JsonParses(t) == t.kind \in {"array", "scalar"}

JsonIsArray(t) == t.kind = "array"

OrNull(x) == IF x = "" \/ x = NULL THEN NULL ELSE x

OrEmpty(x) == IF x = "" \/ x = NULL THEN "" ELSE x

OrDefault(x, d) == IF x = "" \/ x = NULL THEN d ELSE x

(***************************************************************************)
(* The record store: a database value is [kind, rows, seq]; seq is the     *)
(* AUTOINCREMENT counter of table emails.  kind "ok" is a database with    *)
(* the emails table, "none" is "nothing stored", the other kinds are       *)
(* uploaded files that importDb rejects.                                   *)
(***************************************************************************)
Database(rows, seq) == [kind |-> "ok", rows |-> rows, seq |-> seq]

NoBlob == [kind |-> "none", rows |-> <<>>, seq |-> 0]

initTable == Database(<<>>, 0)

Email(fileName, fechaEnvio, tematica, etiquetas, contenido, urls, status) ==
  [fileName |-> fileName, fechaEnvio |-> fechaEnvio, tematica |-> tematica,
   etiquetas |-> etiquetas, contenido |-> contenido, urls |-> urls,
   status |-> status]

Row(id, fileName, fechaEnvio, tematica, etiquetas, contenido, urls) ==
  [id |-> id, fileName |-> fileName, fechaEnvio |-> fechaEnvio,
   tematica |-> tematica, etiquetas |-> etiquetas, contenido |-> contenido,
   urls |-> urls]

RowSet(db) == {db.rows[i] : i \in 1..Len(db.rows)}

getExistingFileNames(db) == {r.fileName : r \in RowSet(db)} \ {EmptyStr}

StoredUrls(r) ==
  IF ~JsonTruthy(r.urls) THEN {}
  ELSE IF JsonParses(r.urls) /\ JsonIsArray(r.urls) THEN SeqToSet(r.urls.arr)
  ELSE {}

existingUrlSets(db) == UNION {StoredUrls(r) : r \in RowSet(db)}

existingNormalizedUrlSets(db) == {normalizeUrl(u) : u \in existingUrlSets(db)}

urlIsDuplicate_RawOnly(urls, raw, norm) ==
  \E i \in 1..Len(urls) : urls[i] \in raw

urlIsDuplicate(urls, raw, norm) ==
  LET normalizedUrls == normalizeUrls(urls)
  IN \E i \in 1..Len(urls) :
       \/ urls[i] \in raw
       \/ (i <= Len(normalizedUrls) /\ normalizedUrls[i] \in norm)

fileNameIsDuplicate_Never(fileName, names) == FALSE

fileNameIsDuplicate(fileName, names) == fileName \in names

DedupIndex(db) ==
  [rows |-> db.rows, seq |-> db.seq,
   names |-> getExistingFileNames(db),
   raw |-> existingUrlSets(db),
   norm |-> existingNormalizedUrlSets(db),
   count |-> 0, skipped |-> 0, errors |-> 0]

AddToIndex_Stale(acc, fileName, urls) == acc

AddToIndex(acc, fileName, urls) ==
  [acc EXCEPT !.names = @ \cup {fileName},
              !.raw = @ \cup SeqToSet(urls),
              !.norm = @ \cup {normalizeUrl(u) : u \in SeqToSet(urls)}]

InsertRow(acc, fileName, fechaEnvio, tematica, etiquetas, contenido, urls) ==
  [acc EXCEPT !.rows = Append(@, Row(acc.seq + 1, fileName, fechaEnvio,
                                     tematica, etiquetas, contenido, urls)),
              !.seq = @ + 1,
              !.count = @ + 1]

saveEmail(acc, email) ==
  IF email.fileName = EmptyStr THEN [acc EXCEPT !.errors = @ + 1]
  ELSE IF urlIsDuplicate(email.urls, acc.raw, acc.norm) THEN acc
  ELSE IF fileNameIsDuplicate(email.fileName, acc.names) THEN acc
  ELSE InsertRow(AddToIndex(acc, email.fileName, email.urls),
                 email.fileName, OrEmpty(email.fechaEnvio),
                 OrDefault(email.tematica, "Sin clasificar"),
                 JsonStringify(email.etiquetas), OrEmpty(email.contenido),
                 JsonStringify(email.urls))

RECURSIVE saveLoop(_, _)
saveLoop(acc, emails) ==
  IF emails = <<>> THEN acc
  ELSE saveLoop(saveEmail(acc, Head(emails)), Tail(emails))

NoResult == [threw |-> FALSE, imported |-> 0, skipped |-> 0, errors |-> 0]

saveToDb_AllOrNothing(db, stored, emails, storageOk) ==
  IF emails = <<>>
    THEN [db |-> db, idb |-> stored, ret |-> NoResult]
  ELSE LET acc == saveLoop(DedupIndex(db), emails)
           committed == IF acc.errors > 0 THEN db ELSE Database(acc.rows, acc.seq)
       IN [db |-> committed,
           idb |-> IF acc.count > 0 /\ acc.errors = 0 /\ storageOk
                     THEN committed ELSE stored,
           ret |-> [threw |-> (acc.count > 0 /\ ~storageOk) \/ acc.errors > 0,
                    imported |-> IF acc.errors > 0 THEN 0 ELSE acc.count,
                    skipped |-> 0, errors |-> acc.errors]]

saveToDb(db, stored, emails, storageOk) ==
  IF emails = <<>>
    THEN [db |-> db, idb |-> stored, ret |-> NoResult]
  ELSE LET acc == saveLoop(DedupIndex(db), emails)
           committed == Database(acc.rows, acc.seq)
       IN [db |-> committed,
           idb |-> IF acc.count > 0 /\ storageOk THEN committed ELSE stored,
           ret |-> [threw |-> (acc.count > 0 /\ ~storageOk) \/ acc.errors > 0,
                    imported |-> acc.count, skipped |-> 0,
                    errors |-> acc.errors]]

exportDb(db) == db

\* the steps of deleteRecords that can fail
DeleteFaults == {"none", "DELETE", "COMMIT", "saveDBToStorage"}

\* BEGIN; DELETE; COMMIT; saveDBToStorage; and in the catch block ROLLBACK
\* and throw.  A ROLLBACK issued after the COMMIT went through undoes
\* nothing.
deleteRecords(db, stored, ids, fault) ==
  IF ids = {}
    THEN [db |-> db, idb |-> stored, ret |-> NoResult]
  ELSE LET Keep(r) == r.id \notin ids
           committed == Database(SelectSeq(db.rows, Keep), db.seq)
       IN [db |-> IF fault \in {"DELETE", "COMMIT"} THEN db ELSE committed,
           idb |-> IF fault = "none" THEN committed ELSE stored,
           ret |-> [NoResult EXCEPT !.threw = (fault # "none")]]

normalizeJsonField(t) ==
  IF ~JsonTruthy(t) THEN JsonStringify(<<>>)
  ELSE IF ~JsonParses(t) THEN JsonStringify(<<>>)
  ELSE IF JsonIsArray(t) THEN JsonStringify(t.arr)
  ELSE JsonStringify(<<>>)

importUrlIsDuplicate(t, raw, norm) ==
  /\ JsonTruthy(t)
  /\ JsonParses(t)
  /\ JsonIsArray(t)
  /\ Len(t.arr) > 0
  /\ urlIsDuplicate(t.arr, raw, norm)

importRow_CountsTwice(acc, entry) ==
  IF entry.fileName = EmptyStr
    THEN [acc EXCEPT !.errors = @ + 1, !.skipped = @ + 1]
  ELSE IF importUrlIsDuplicate(entry.urls, acc.raw, acc.norm)
    THEN [acc EXCEPT !.skipped =
            IF fileNameIsDuplicate(entry.fileName, acc.names) THEN @ + 2 ELSE @ + 1]
  ELSE IF fileNameIsDuplicate(entry.fileName, acc.names)
    THEN [acc EXCEPT !.skipped = @ + 1]
  ELSE InsertRow(AddToIndex(acc, entry.fileName, normalizeJsonField(entry.urls).arr),
                 entry.fileName, OrNull(entry.fechaEnvio),
                 OrNull(entry.tematica), normalizeJsonField(entry.etiquetas),
                 OrNull(entry.contenido), normalizeJsonField(entry.urls))

importRow_UrlOnly(acc, entry) ==
  IF entry.fileName = EmptyStr
    THEN [acc EXCEPT !.errors = @ + 1, !.skipped = @ + 1]
  ELSE IF importUrlIsDuplicate(entry.urls, acc.raw, acc.norm)
    THEN [acc EXCEPT !.skipped = @ + 1]
  ELSE LET etiquetasStr == normalizeJsonField(entry.etiquetas)
           urlsStr == normalizeJsonField(entry.urls)
       IN InsertRow(AddToIndex(acc, entry.fileName, urlsStr.arr),
                    entry.fileName, OrNull(entry.fechaEnvio),
                    OrNull(entry.tematica), etiquetasStr,
                    OrNull(entry.contenido), urlsStr)

importRow(acc, entry) ==
  IF entry.fileName = EmptyStr
    THEN [acc EXCEPT !.errors = @ + 1, !.skipped = @ + 1]
  ELSE IF importUrlIsDuplicate(entry.urls, acc.raw, acc.norm)
    THEN [acc EXCEPT !.skipped = @ + 1]
  ELSE IF fileNameIsDuplicate(entry.fileName, acc.names)
    THEN [acc EXCEPT !.skipped = @ + 1]
  ELSE LET etiquetasStr == normalizeJsonField(entry.etiquetas)
           urlsStr == normalizeJsonField(entry.urls)
       IN InsertRow(AddToIndex(acc, entry.fileName, urlsStr.arr),
                    entry.fileName, OrNull(entry.fechaEnvio),
                    OrNull(entry.tematica), etiquetasStr,
                    OrNull(entry.contenido), urlsStr)

RECURSIVE importLoop(_, _)
importLoop(acc, values) ==
  IF values = <<>> THEN acc
  ELSE importLoop(importRow(acc, Head(values)), Tail(values))

importDb_Replaces(db, stored, file, storageOk) ==
  IF file.kind # "ok"
    THEN [db |-> db, idb |-> stored, ret |-> [NoResult EXCEPT !.threw = TRUE]]
  ELSE IF file.rows = <<>>
    THEN [db |-> db, idb |-> stored, ret |-> NoResult]
  ELSE LET acc == importLoop(DedupIndex(initTable), file.rows)
           committed == Database(acc.rows, acc.seq)
       IN [db |-> committed,
           idb |-> IF acc.count > 0 /\ storageOk THEN committed ELSE stored,
           ret |-> [threw |-> acc.count > 0 /\ ~storageOk,
                    imported |-> acc.count, skipped |-> acc.skipped,
                    errors |-> acc.errors]]

importDb(db, stored, file, storageOk) ==
  IF file.kind # "ok"
    THEN [db |-> db, idb |-> stored, ret |-> [NoResult EXCEPT !.threw = TRUE]]
  ELSE IF file.rows = <<>>
    THEN [db |-> db, idb |-> stored, ret |-> NoResult]
  ELSE LET acc == importLoop(DedupIndex(db), file.rows)
           committed == Database(acc.rows, acc.seq)
       IN [db |-> committed,
           idb |-> IF acc.count > 0 /\ storageOk THEN committed ELSE stored,
           ret |-> [threw |-> acc.count > 0 /\ ~storageOk,
                    imported |-> acc.count, skipped |-> acc.skipped,
                    errors |-> acc.errors]]

\* ORDER BY id DESC
orderByIdDesc_Asc(rows) == SortSeq(rows, LAMBDA a, b : a.id < b.id)

orderByIdDesc(rows) == SortSeq(rows, LAMBDA a, b : a.id > b.id)

\* entry.etiquetas || "[]"
orEmptyArrayText(t) == IF JsonTruthy(t) THEN t ELSE JsonStringify(<<>>)

\* JSON.parse: throws on text that is not JSON, returns the value otherwise
\* (an array, or something else)
jsonParseThrows(t) == ~JsonParses(t)

mapRow_StatusFromTopic(entry) ==
  [id |-> entry.id, fileName |-> entry.fileName,
   fechaEnvio |-> entry.fechaEnvio, tematica |-> entry.tematica,
   etiquetas |-> orEmptyArrayText(entry.etiquetas),
   contenido |-> entry.contenido,
   urls |-> orEmptyArrayText(entry.urls),
   status |-> IF entry.tematica = "Error en Análisis" THEN "error" ELSE "completed"]

mapRow(entry) ==
  [id |-> entry.id, fileName |-> entry.fileName,
   fechaEnvio |-> entry.fechaEnvio, tematica |-> entry.tematica,
   etiquetas |-> orEmptyArrayText(entry.etiquetas),
   contenido |-> entry.contenido,
   urls |-> orEmptyArrayText(entry.urls), status |-> "completed"]

rowThrows(entry) ==
  \/ jsonParseThrows(orEmptyArrayText(entry.etiquetas))
  \/ jsonParseThrows(orEmptyArrayText(entry.urls))

\* the value the promise resolves to, or threw when a JSON.parse of the
\* map callback throws and the promise rejects
getAllEmails(db) ==
  LET values == orderByIdDesc(db.rows)
      threw == \E k \in 1..Len(values) : rowThrows(values[k])
  IN [threw |-> threw,
      value |-> IF threw THEN <<>>
                ELSE [k \in 1..Len(values) |-> mapRow(values[k])]]

(***************************************************************************)
(* State                                                                   *)
(***************************************************************************)
VARIABLES
  dbInstance,            \* the sql.js database held by dbService
  idb,                   \* IndexedDB: the blob stored under DB_KEY 'main_db'
  ret,                   \* outcome of the latest dbService call
  call,                  \* the latest dbService call: operation, argument, store before it
  exported,              \* the file produced by the latest exportDb
  status,                \* App state `status`
  files,                 \* App state `files`
  urls,                  \* App state `urls`
  youtubeUrls,           \* App state `youtubeUrls`
  isProcessingCancelled, \* App ref isProcessingCancelled.current
  progress,              \* App state `progress`
  pc,                    \* position of the running batch function
  kind,                  \* which batch function runs: "files", "urls", "youtube"
  items,                 \* the queue the running function closed over
  closureStatus,         \* the `status` the running function closed over
  i,                     \* loop index of the running function (0-based)
  delayCount,            \* index of the pacing loop (0 outside the loop)
  results,               \* local `results` of the running function
  processingErrors,      \* length of local `processingErrors`
  analysis,              \* outcome of the enrichment of the current item
  hist,                  \* history of the running batch (for the properties)
  fnPc,                  \* position in the pure-function call under study
  fnInput,               \* argument of normalizeUrl
  fnOnce,                \* normalizeUrl(fnInput)
  fnTwice,               \* normalizeUrl(normalizeUrl(fnInput))
  gPc,                   \* position of the running analyze* call (geminiService)
  gFn,                   \* which one runs: "email" or "url"
  attempt,               \* local `attempt`
  delay,                 \* local `delay` (ms)
  gResult,               \* what the call returned or threw
  gHist,                 \* history of the call: service calls, waits, error kinds
  env,                   \* the session explored: drop size, batches, whether blob writes fail
  dropPc,                \* position of a handleFilesDropped call suspended at its await
  userOps,               \* store operations the user has issued (delete, import, reset)
  loads                  \* the calls of loadSqlJs in flight and the databases they created

storeVars == <<dbInstance, idb, ret, call, exported>>

uiVars == <<status, files, urls, youtubeUrls, isProcessingCancelled, progress>>

batchVars ==
  <<pc, kind, items, closureStatus, i, delayCount, results, processingErrors,
    analysis, hist>>

fnVars ==
  <<fnPc, fnInput, fnOnce, fnTwice, gPc, gFn, attempt, delay, gResult, gHist>>

sessionVars == <<env, dropPc, userOps, loads>>

vars == <<storeVars, uiVars, batchVars, fnVars, sessionVars>>

NoCall ==
  [op |-> "none", emails |-> <<>>, file |-> NoBlob, ids |-> {},
   fault |-> "none", preEmpty |-> FALSE, fromExport |-> FALSE,
   again |-> FALSE]

NoAnalysis == [outcome |-> "none", urls |-> <<>>]

NoHist ==
  [batches |-> 0, pre |-> <<>>, expected |-> <<>>, touched |-> {},
   saved |-> {}, okAt |-> {}, failedAt |-> {}, genericAt |-> {},
   dupAt |-> {}, quotaAt |-> 0, cancelled |-> FALSE,
   observed |-> FALSE, critical |-> FALSE, deleted |-> {}]

\* the session explored: how many items a drop brings, how many batches
\* are started, whether the blob write of a per-item save can fail, and the
\* database file served from the bd folder (NoBlob when there is none)
\* the functions of dbService that start with `await loadSqlJs()` and are
\* followed through it at start-up
Callers == {"getAllEmails", "getExistingFileNames", "saveToDb"}

NoCaller == [pc |-> "idle", savedData |-> NoBlob, handle |-> 0]

\* no call of loadSqlJs is followed: the store is dbInstance alone
NoLoads ==
  [inst |-> <<>>, cur |-> 0, callers |-> [c \in Callers |-> NoCaller],
   written |-> {}, missed |-> {}]

SessionEnv(n, b, fail, bd) ==
  [items |-> n, batches |-> b, writesFail |-> fail, bdFolder |-> bd]

DefaultEnv == SessionEnv(MaxItems, MaxBatches, FALSE, NoBlob)

AppIdleIn(e, db, blob) ==
  /\ dbInstance = db
  /\ idb = blob
  /\ ret = NoResult
  /\ call = NoCall
  /\ exported = NoBlob
  /\ status = "IDLE"
  /\ files = <<>>
  /\ urls = <<>>
  /\ youtubeUrls = <<>>
  /\ isProcessingCancelled = FALSE
  /\ progress = [current |-> 0, total |-> 0]
  /\ pc = "none"
  /\ kind = "none"
  /\ items = <<>>
  /\ closureStatus = "IDLE"
  /\ i = 0
  /\ delayCount = 0
  /\ results = <<>>
  /\ processingErrors = 0
  /\ analysis = NoAnalysis
  /\ hist = NoHist
  /\ env = e
  /\ dropPc = "none"
  /\ userOps = 0
  /\ loads = NoLoads

AppIdle(db, blob) == AppIdleIn(DefaultEnv, db, blob)

NormalizeIdle ==
  /\ fnPc = "none"
  /\ fnInput = EmptyStr
  /\ fnOnce = EmptyStr
  /\ fnTwice = EmptyStr

NoGResult == [tematica |-> "", threw |-> FALSE, urls |-> <<>>, warnings |-> FALSE]

\* the `urls` field of a parsed response: an array, or something else
ResponseField(isArray, arr) == [isArray |-> isArray, arr |-> arr]

NoResponse == [urls |-> ResponseField(FALSE, <<>>), fields |-> "none"]

NoGHist ==
  [calls |-> 0, waits |-> <<>>, last |-> "none", allTransient |-> TRUE,
   allOther |-> TRUE, response |-> NoResponse]

GeminiIdle(p) ==
  /\ gPc = p
  /\ gFn = "none"
  /\ attempt = 0
  /\ delay = 0
  /\ gResult = NoGResult
  /\ gHist = NoGHist

FnIdle == NormalizeIdle /\ GeminiIdle("none")

InitWith(db, blob) == AppIdle(db, blob) /\ FnIdle

\* a session with nothing stored
Init == InitWith(initTable, NoBlob)

(***************************************************************************)
(* Inputs of the store operations                                          *)
(***************************************************************************)
U1 == Https("x.com", <<"u", "status", "1">>, <<Param("t", "9")>>)

U2 == Https("twitter.com", <<"u", "status", "1">>, <<>>)

U3 == Str(FALSE, "https", "", "x.com", "443", <<"u", "status", "2">>,
          <<Param("x", "1")>>)

U4 == Https("github.com", <<"a", "b">>, <<Param("utm_source", "x")>>)

U5 == Https("github.com", <<"a", "b">>, <<>>)

EmailInputs ==
  { Email(Plain("a.eml"), "2025-01-01", "Tema", <<"ia">>, "<p>r</p>", <<U1>>, "completed"),
    Email(Plain("b.eml"), "2025-01-02", "Tema", <<>>, "<p>r</p>", <<U2>>, "completed"),
    Email(Plain("a.eml"), "2025-01-03", "", <<>>, "<p>r</p>", <<EmptyStr, U4>>, "completed"),
    Email(Plain("c.eml"), "", "Error en Análisis", <<"Error">>, "", <<>>, "error"),
    Email(EmptyStr, "2025-01-04", "Tema", <<>>, "<p>r</p>", <<U5>>, "completed"),
    Email(Plain("d.eml"), "2025-01-05", "Tema", <<>>, "<p>r</p>", <<U5, U3>>, "completed") }

BlobRows ==
  { Row(1, Plain("a.eml"), "", NULL, JsonInvalid, "<p>r</p>", JsonStringify(<<U2>>)),
    Row(2, Plain("e.eml"), "2025-02-01", "Tema", JsonScalar, "", JsonInvalid),
    Row(3, EmptyStr, "2025-02-02", "Tema", JsonStringify(<<>>), "<p>r</p>", JsonStringify(<<U4>>)),
    Row(4, Plain("b.eml"), "2025-02-03", "Tema", JsonStringify(<<"ia">>), "<p>r</p>", JsonNull) }

SeqsUpTo(S, n) == UNION {[1..k -> S] : k \in 1..n}

UploadedFiles ==
  {Database(rows, Len(rows)) : rows \in SeqsUpTo(BlobRows, MaxCall)}
    \cup {Database(<<>>, 0),
          [kind |-> "notable", rows |-> <<>>, seq |-> 0],
          [kind |-> "nofilename", rows |-> <<>>, seq |-> 0]}

(***************************************************************************)
(* The store operations called directly (dbService API)                    *)
(***************************************************************************)
SaveToDbCall ==
  \E emails \in SeqsUpTo(EmailInputs, MaxCall) :
    /\ dbInstance.seq + Len(emails) <= MaxSeq
    /\ LET r == saveToDb(dbInstance, idb, emails, TRUE)
       IN /\ dbInstance' = r.db
          /\ idb' = r.idb
          /\ ret' = r.ret
          /\ call' = [NoCall EXCEPT !.op = "saveToDb", !.emails = emails]
    /\ UNCHANGED <<exported, uiVars, batchVars>>
  /\ UNCHANGED <<fnVars, sessionVars>>

ImportFile(file) ==
  /\ dbInstance.seq + Len(file.rows) <= MaxSeq
  /\ LET r == importDb(dbInstance, idb, file, TRUE)
     IN /\ dbInstance' = r.db
        /\ idb' = r.idb
        /\ ret' = r.ret
        /\ call' = [NoCall EXCEPT !.op = "importDb", !.file = file,
                                  !.preEmpty = (dbInstance.rows = <<>>),
                                  !.fromExport = (file = exported),
                                  !.again = (call.op = "importDb" /\ call.file = file)]
  /\ UNCHANGED <<exported, uiVars, batchVars>>
  /\ UNCHANGED <<fnVars, sessionVars>>

ImportDbCall == \E file \in UploadedFiles : ImportFile(file)

DeleteRecordsCall ==
  \E ids \in SUBSET {r.id : r \in RowSet(dbInstance)} :
    /\ LET r == deleteRecords(dbInstance, idb, ids, "none")
       IN /\ dbInstance' = r.db
          /\ idb' = r.idb
          /\ ret' = r.ret
          /\ call' = [NoCall EXCEPT !.op = "deleteRecords", !.ids = ids]
    /\ UNCHANGED <<exported, uiVars, batchVars>>
  /\ UNCHANGED <<fnVars, sessionVars>>

NextStore ==
  \/ SaveToDbCall
  \/ ImportDbCall
  \/ DeleteRecordsCall

SpecStore == Init /\ [][NextStore]_vars

(***************************************************************************)
(* Round trip: a store built by the operations above is exported, and the  *)
(* exported file is imported by a session that starts with nothing stored. *)
(***************************************************************************)
Building == exported.kind = "none"

BuildStore == Building /\ NextStore

ExportDbCall ==
  /\ Building
  /\ exported' = exportDb(dbInstance)
  /\ ret' = NoResult
  /\ call' = [NoCall EXCEPT !.op = "exportDb"]
  /\ UNCHANGED <<dbInstance, idb, uiVars, batchVars>>
  /\ UNCHANGED <<fnVars, sessionVars>>

NewSession ==
  /\ ~Building
  /\ call.op = "exportDb"
  /\ dbInstance' = initTable
  /\ idb' = NoBlob
  /\ ret' = NoResult
  /\ call' = [NoCall EXCEPT !.op = "loadSqlJs"]
  /\ UNCHANGED <<exported, uiVars, batchVars>>
  /\ UNCHANGED <<fnVars, sessionVars>>

ImportExported ==
  /\ ~Building
  /\ call.op \in {"exportDb", "loadSqlJs"}
  /\ ImportFile(exported)

NextRoundTrip ==
  \/ BuildStore
  \/ ExportDbCall
  \/ NewSession
  \/ ImportExported

SpecRoundTrip == Init /\ [][NextRoundTrip]_vars

(***************************************************************************)
(* The dedup rule as the specification states it, over the (fileName,      *)
(* urls) keys of the stored rows: used by the properties and by the        *)
(* history variable, never by the model of the code.                       *)
(***************************************************************************)
RowUrls(r) == IF r.urls.kind = "array" THEN SeqToSet(r.urls.arr) ELSE {}

Overlap(A, B) ==
  \E u \in A, v \in B : u = v \/ normalizeUrl(u) = normalizeUrl(v)

Key(r) == <<r.fileName, r.urls>>

Keys(rows) == [k \in 1..Len(rows) |-> Key(rows[k])]

KeyNames(keys) == {keys[k][1] : k \in 1..Len(keys)}

KeyUrls(keys) ==
  UNION {IF keys[k][2].kind = "array" THEN SeqToSet(keys[k][2].arr) ELSE {}
           : k \in 1..Len(keys)}

Accepts(keys, email) ==
  /\ email.fileName # EmptyStr
  /\ \A u \in SeqToSet(email.urls) :
       /\ u \notin KeyUrls(keys)
       /\ normalizeUrl(u) \notin {normalizeUrl(v) : v \in KeyUrls(keys)}
  /\ email.fileName \notin KeyNames(keys)

(***************************************************************************)
(* The ingestion pipeline (App.tsx).  A batch function runs from one await *)
(* to the next in one step; pc names the await it is suspended at.         *)
(***************************************************************************)
PacingSeconds == 15

Processing == {"PARSING", "ANALYZING", "GENERATING_DB"}

Running == pc \notin {"none", "done"}

AllFiles == <<Plain("a.eml"), Plain("b.eml"), Plain("c.eml"), Plain("d.eml")>>

Y1 == Https("youtube.com", <<"watch">>, <<Param("v", "1")>>)

Y2 == Https("youtube.com", <<"watch">>, <<Param("v", "2")>>)

Y3 == Https("youtube.com", <<"watch">>, <<Param("v", "3")>>)

Y4 == Https("youtube.com", <<"watch">>, <<Param("v", "4")>>)

AllUrls == <<U1, U2, U5, U4>>

AllYouTubeUrls == <<Y1, Y2, Y3, Y4>>

Dropped(list) == SubSeq(list, 1, env.items)

FileAnalysisUrls == {<<>>, <<EmptyStr, U1>>}

Outcomes(item) ==
  {[outcome |-> o, urls |-> <<>>] : o \in {"quota", "generic", "throw"}}
    \cup (IF kind = "files"
            THEN {[outcome |-> "ok", urls |-> u] : u \in FileAnalysisUrls}
            ELSE {[outcome |-> "ok", urls |-> <<item>>]})

validatedUrls(list) == SelectSeq(list, IsNonEmpty)

analyzedEmail(item, a) ==
  Email(item, "2025-01-01", "Tema", <<"ia">>, "<p>r</p>",
        validatedUrls(a.urls), "completed")

errorEmail(item) ==
  Email(item, "2025-01-01", "Error en Análisis", <<"Error">>, "<p>e</p>",
        IF kind = "files" THEN <<>> ELSE <<item>>, "error")

Ctl(p, idx, d, st, prog, clear, flag, h) ==
  [pc |-> p, i |-> idx, delayCount |-> d, status |-> st, progress |-> prog,
   clearQueue |-> clear, flag |-> flag, hist |-> h]

Apply(c) ==
  /\ pc' = c.pc
  /\ i' = c.i
  /\ delayCount' = c.delayCount
  /\ status' = c.status
  /\ progress' = c.progress
  /\ isProcessingCancelled' = c.flag
  /\ hist' = c.hist
  /\ files' = IF c.clearQueue /\ kind = "files" THEN <<>> ELSE files
  /\ urls' = IF c.clearQueue /\ kind = "urls" THEN <<>> ELSE urls
  /\ youtubeUrls' = IF c.clearQueue /\ kind = "youtube" THEN <<>> ELSE youtubeUrls

\* the try block of item idx up to its first await
enterItem(idx, h) ==
  Ctl(IF kind = "files" THEN "parse" ELSE "analyze", idx, 0,
      IF kind = "files" THEN "PARSING" ELSE "ANALYZING",
      [current |-> idx, total |-> Len(items)], FALSE, isProcessingCancelled,
      [h EXCEPT !.touched = @ \cup {idx + 1}])

\* the code after the loop
finish(idx, st, prog, h) ==
  IF closureStatus # "ERROR" /\ ~isProcessingCancelled
    THEN Ctl("done", idx, 0, "COMPLETED", [current |-> 0, total |-> 0],
             TRUE, FALSE, h)
    ELSE Ctl("done", idx, 0, st, prog, FALSE, FALSE, h)

\* the cancellation check at the top of the loop body
cancelPath_Proceeds(idx, prog, h) == enterItem(idx, h)

cancelPath(idx, prog, h) ==
  IF results # <<>>
    THEN Ctl("cancelSave", idx, 0, "GENERATING_DB", prog, FALSE,
             isProcessingCancelled, [h EXCEPT !.observed = TRUE])
    ELSE Ctl("done", idx, 0, "IDLE", prog, FALSE,
             isProcessingCancelled, [h EXCEPT !.observed = TRUE])

\* the loop condition and the body of iteration idx up to its first await
loopHead(idx, st, prog, h) ==
  IF idx >= Len(items) THEN finish(idx, st, prog, h)
  ELSE IF isProcessingCancelled THEN cancelPath(idx, prog, h)
  ELSE IF idx > 0
    THEN Ctl("pacing", idx, 0, st, prog, FALSE, isProcessingCancelled, h)
  ELSE enterItem(idx, h)

\* `break` after the quota sentinel
onQuota_Continue(idx, st, prog, h) == loopHead(idx + 1, st, prog, h)

onQuota(idx, st, prog, h) == finish(idx, st, prog, h)

\* `continue` after the generic-failure sentinel
onGeneric_Break(idx, st, prog, h) == finish(idx, st, prog, h)

onGeneric_Retries(idx, st, prog, h) == loopHead(idx, st, prog, h)

onGeneric_NoPause(idx, st, prog, h) ==
  IF idx + 1 < Len(items) /\ ~isProcessingCancelled
    THEN enterItem(idx + 1, h)
    ELSE loopHead(idx + 1, st, prog, h)

onGeneric(idx, st, prog, h) == loopHead(idx + 1, st, prog, h)

StartBatch(k, queue) ==
  /\ queue # <<>>
  /\ status = "IDLE"
  /\ pc = "none"
  /\ hist.batches < env.batches
  /\ kind' = k
  /\ items' = queue
  /\ closureStatus' = status
  /\ results' = <<>>
  /\ processingErrors' = 0
  /\ analysis' = NoAnalysis
  /\ pc' = IF k = "files" THEN "parse" ELSE "analyze"
  /\ i' = 0
  /\ delayCount' = 0
  /\ status' = IF k = "files" THEN "PARSING" ELSE "ANALYZING"
  /\ progress' = [current |-> 0, total |-> Len(queue)]
  /\ isProcessingCancelled' = FALSE
  /\ hist' = [NoHist EXCEPT !.batches = hist.batches + 1,
                            !.pre = Keys(dbInstance.rows),
                            !.touched = {1}]
  /\ UNCHANGED <<storeVars, files, urls, youtubeUrls>>
  /\ UNCHANGED <<fnVars, sessionVars>>

processFiles == StartBatch("files", files)

processUrls == StartBatch("urls", urls)

processYouTubeUrls == StartBatch("youtube", youtubeUrls)

stopProcessing ==
  /\ status \in Processing
  /\ isProcessingCancelled' = TRUE
  /\ hist' = IF Running /\ ~hist.cancelled
               THEN [hist EXCEPT !.cancelled = TRUE]
               ELSE hist
  /\ UNCHANGED <<storeVars, status, files, urls, youtubeUrls, progress, pc,
                 kind, items, closureStatus, i, delayCount, results,
                 processingErrors, analysis>>
  /\ UNCHANGED <<fnVars, sessionVars>>

\* an item-level error caught at `catch (fileError)`: the error record is
\* built and pushed, the function awaits saveToDb([errorEmail])
caught(h) ==
  /\ processingErrors' = processingErrors + 1
  /\ results' = Append(results, errorEmail(items[i + 1]))
  /\ Apply(Ctl("save", i, 0, status, progress, FALSE,
               isProcessingCancelled, [h EXCEPT !.failedAt = @ \cup {i + 1}]))

ParseDone ==
  /\ pc = "parse"
  /\ \E ok \in BOOLEAN :
       IF ok
         THEN /\ Apply(Ctl("analyze", i, 0, "ANALYZING", progress,
                           FALSE, isProcessingCancelled, hist))
              /\ UNCHANGED <<results, processingErrors, analysis>>
         ELSE /\ caught(hist)
              /\ analysis' = [outcome |-> "throw", urls |-> <<>>]
  /\ UNCHANGED <<storeVars, kind, items, closureStatus>>
  /\ UNCHANGED <<fnVars, sessionVars>>

IsStored(item, a) ==
  LET urlsOf == IF kind = "files" THEN validatedUrls(a.urls) ELSE <<item>>
  IN \/ item \in KeyNames(Keys(dbInstance.rows))
     \/ Overlap(SeqToSet(urlsOf), KeyUrls(Keys(dbInstance.rows)))

AnalyzeDone ==
  /\ pc = "analyze"
  /\ \E a \in Outcomes(items[i + 1]) :
       /\ analysis' = a
       /\ CASE a.outcome = "quota" ->
                 /\ Apply(onQuota(i, "ERROR", progress,
                                  [hist EXCEPT !.quotaAt = i + 1]))
                 /\ UNCHANGED <<results, processingErrors>>
            [] a.outcome = "generic" ->
                 /\ processingErrors' = processingErrors + 1
                 /\ Apply(onGeneric(i, status,
                                    [current |-> i + 1, total |-> Len(items)],
                                    [hist EXCEPT !.genericAt = @ \cup {i + 1},
                                                 !.dupAt = IF IsStored(items[i + 1], a)
                                                             THEN @ \cup {i + 1} ELSE @]))
                 /\ UNCHANGED results
            [] a.outcome = "throw" -> caught(hist)
            [] a.outcome = "ok" ->
                 /\ results' = Append(results, analyzedEmail(items[i + 1], a))
                 /\ Apply(Ctl("save", i, 0, status, progress, FALSE,
                              isProcessingCancelled,
                              [hist EXCEPT !.okAt = @ \cup {i + 1}]))
                 /\ UNCHANGED processingErrors
  /\ UNCHANGED <<storeVars, kind, items, closureStatus>>
  /\ UNCHANGED <<fnVars, sessionVars>>

\* `catch (saveError)`: the error is logged, the loop goes on
onSaveError_Rethrows(idx, st, prog, h) ==
  Ctl("done", idx - 1, 0, "ERROR", progress, FALSE, isProcessingCancelled,
      [h EXCEPT !.critical = TRUE])

onSaveError(idx, st, prog, h) == loopHead(idx, st, prog, h)

SaveDone ==
  /\ pc = "save"
  /\ \E storageOk \in (IF env.writesFail THEN BOOLEAN ELSE {TRUE}) :
       LET email == results[Len(results)]
           r == saveToDb(dbInstance, idb, <<email>>, storageOk)
           fresh == Accepts(Keys(dbInstance.rows), email)
           h == [hist EXCEPT !.saved = @ \cup {i + 1},
                             !.dupAt = IF fresh THEN @ ELSE @ \cup {i + 1},
                             !.expected = IF fresh
                                            THEN Append(@, <<email.fileName, JsonStringify(email.urls)>>)
                                            ELSE @]
           prog == [current |-> i + 1, total |-> Len(items)]
       IN /\ dbInstance' = r.db
          /\ idb' = r.idb
          /\ ret' = r.ret
          /\ call' = [NoCall EXCEPT !.op = "saveToDb", !.emails = <<email>>]
          /\ IF r.ret.threw
               THEN Apply(onSaveError(i + 1, status, prog, h))
               ELSE Apply(loopHead(i + 1, status, prog, h))
  /\ UNCHANGED <<exported, kind, items, closureStatus, results,
                 processingErrors, analysis>>
  /\ UNCHANGED <<fnVars, sessionVars>>

SleepDone ==
  /\ pc = "pacing"
  /\ IF delayCount + 1 < PacingSeconds /\ ~isProcessingCancelled
       THEN Apply(Ctl("pacing", i, delayCount + 1, status, progress, FALSE,
                      isProcessingCancelled, hist))
       ELSE IF isProcessingCancelled
         THEN Apply(loopHead(i + 1, status, progress, hist))
         ELSE Apply(enterItem(i, hist))
  /\ UNCHANGED <<storeVars, kind, items, closureStatus, results,
                 processingErrors, analysis>>
  /\ UNCHANGED <<fnVars, sessionVars>>

CancelSaveDone ==
  /\ pc = "cancelSave"
  /\ \E storageOk \in BOOLEAN :
       LET r == saveToDb(dbInstance, idb, results, storageOk)
       IN /\ dbInstance' = r.db
          /\ idb' = r.idb
          /\ ret' = r.ret
          /\ call' = [NoCall EXCEPT !.op = "saveToDb", !.emails = results]
          /\ IF r.ret.threw
               THEN Apply(Ctl("done", i, 0, "ERROR", progress, FALSE,
                              isProcessingCancelled,
                              [hist EXCEPT !.critical = TRUE]))
               ELSE Apply(Ctl("done", i, 0, "IDLE", progress, FALSE,
                              isProcessingCancelled, hist))
  /\ UNCHANGED <<exported, kind, items, closureStatus, results,
                 processingErrors, analysis>>
  /\ UNCHANGED <<fnVars, sessionVars>>

handleFilesDropped ==
  /\ status \notin Processing
  /\ pc = "none"
  /\ hist.batches < env.batches
  /\ files = <<>> /\ urls = <<>> /\ youtubeUrls = <<>>
  /\ LET newFiles == Dropped(AllFiles)
         existingFileNames == getExistingFileNames(dbInstance)
         IsNew(f) == f \notin existingFileNames
         newFilesToProcess == SelectSeq(newFiles, IsNew)
     IN IF newFilesToProcess = <<>>
          THEN files' = <<>> /\ status' = status
          ELSE files' = newFilesToProcess /\ status' = "IDLE"
  /\ UNCHANGED <<storeVars, urls, youtubeUrls, isProcessingCancelled,
                 progress, batchVars>>
  /\ UNCHANGED <<fnVars, sessionVars>>

handleUrlsDropped ==
  /\ status \notin Processing
  /\ pc = "none"
  /\ hist.batches < env.batches
  /\ files = <<>> /\ urls = <<>> /\ youtubeUrls = <<>>
  /\ urls' = Dropped(AllUrls)
  /\ status' = "IDLE"
  /\ UNCHANGED <<storeVars, files, youtubeUrls, isProcessingCancelled,
                 progress, batchVars>>
  /\ UNCHANGED <<fnVars, sessionVars>>

handleYouTubeUrlsDropped ==
  /\ status \notin Processing
  /\ pc = "none"
  /\ hist.batches < env.batches
  /\ files = <<>> /\ urls = <<>> /\ youtubeUrls = <<>>
  /\ youtubeUrls' = Dropped(AllYouTubeUrls)
  /\ status' = "IDLE"
  /\ UNCHANGED <<storeVars, files, urls, isProcessingCancelled, progress,
                 batchVars>>
  /\ UNCHANGED <<fnVars, sessionVars>>

\* the batch function has returned: its locals are gone
Return ==
  /\ pc = "done"
  /\ pc' = "none"
  /\ kind' = "none"
  /\ items' = <<>>
  /\ closureStatus' = "IDLE"
  /\ i' = 0
  /\ delayCount' = 0
  /\ results' = <<>>
  /\ processingErrors' = 0
  /\ analysis' = NoAnalysis
  /\ hist' = [NoHist EXCEPT !.batches = hist.batches]
  /\ ret' = NoResult
  /\ call' = NoCall
  /\ UNCHANGED <<dbInstance, idb, exported, uiVars>>
  /\ UNCHANGED <<fnVars, sessionVars>>

\* the store a previous session left in IndexedDB, loaded at start-up
PersistedStores ==
  {initTable,
   Database(<<Row(1, Plain("b.eml"), "2025-01-02", "Tema", JsonStringify(<<>>),
                  "<p>r</p>", JsonStringify(<<U2>>))>>, 1)}

\* start-up: the saved store, if any, is loaded
InitLoaded ==
  \E saved \in PersistedStores :
    InitWith(saved, IF saved = initTable THEN NoBlob ELSE saved)

Next ==
  \/ handleFilesDropped
  \/ handleUrlsDropped
  \/ handleYouTubeUrlsDropped
  \/ processFiles
  \/ processUrls
  \/ processYouTubeUrls
  \/ stopProcessing
  \/ ParseDone
  \/ AnalyzeDone
  \/ SaveDone
  \/ SleepDone
  \/ CancelSaveDone
  \/ Return

Spec == InitLoaded /\ [][Next]_vars

\* one batch in a session where the blob write of a per-item save can fail
InitWriteFailures ==
  \E saved \in PersistedStores :
    /\ AppIdleIn(SessionEnv(MaxItems, 1, TRUE, NoBlob),
                 saved, IF saved = initTable THEN NoBlob ELSE saved)
    /\ FnIdle

SpecWriteFailures == InitWriteFailures /\ [][Next]_vars

(***************************************************************************)
(* A whole session: start-up, the store operations of the toolbar and of   *)
(* the results table, and the batches.  dbInstance is NoBlob (null) while  *)
(* loadSqlJs is at one of its awaits.                                      *)
(***************************************************************************)
MaxUserOps == 1

Loaded == dbInstance.kind = "ok"

BdFolderFiles == PersistedStores \ {initTable}

SessionEnvs ==
  {SessionEnv(n, b, FALSE, bd) :
     n \in {MaxItems}, b \in {MaxBatches + 1},
     bd \in {NoBlob} \cup BdFolderFiles}
    \cup {SessionEnv(MaxItems + 1, MaxBatches, FALSE, NoBlob)}

\* the page has been opened: loadData has called getAllEmails, which is
\* suspended in loadSqlJs
InitSession ==
  \E e \in SessionEnvs, saved \in PersistedStores :
    /\ AppIdleIn(e, NoBlob, IF saved = initTable THEN NoBlob ELSE saved)
    /\ FnIdle

\* loadSqlJs runs to its end: the bd folder first, then IndexedDB, then a
\* new database; what was loaded is written back to IndexedDB, and an
\* error of that write is swallowed
loadSqlJs ==
  /\ ~Loaded
  /\ LET savedData == IF env.bdFolder # NoBlob THEN env.bdFolder ELSE idb
     IN IF savedData # NoBlob
          THEN /\ dbInstance' = savedData
               /\ \E storageOk \in BOOLEAN :
                    idb' = IF storageOk THEN savedData ELSE idb
          ELSE /\ dbInstance' = initTable
               /\ idb' = idb
  /\ UNCHANGED <<ret, call, exported, uiVars, batchVars>>
  /\ UNCHANGED <<fnVars, sessionVars>>

\* handleReset up to the awaits of resetDb: the database is closed and
\* dropped, the key is deleted, loadSqlJs is called
ResetBegin ==
  /\ Loaded
  /\ pc = "none"
  /\ dropPc = "none"
  /\ userOps < MaxUserOps
  /\ dbInstance' = NoBlob
  /\ idb' = NoBlob
  /\ ret' = NoResult
  /\ call' = [NoCall EXCEPT !.op = "resetDb"]
  /\ userOps' = userOps + 1
  /\ UNCHANGED <<exported, uiVars, batchVars>>
  /\ UNCHANGED <<fnVars, env, dropPc, loads>>

\* handleFilesDropped while the database is loading: the handler is
\* suspended at `await getExistingFileNames()`
FilesDropBegin ==
  /\ ~Loaded
  /\ status \notin Processing
  /\ pc = "none"
  /\ dropPc = "none"
  /\ hist.batches < env.batches
  /\ files = <<>> /\ urls = <<>> /\ youtubeUrls = <<>>
  /\ dropPc' = "await"
  /\ UNCHANGED <<storeVars, uiVars, batchVars>>
  /\ UNCHANGED <<fnVars, env, userOps, loads>>

\* the rest of that handleFilesDropped, once the file names are there
FilesDropEnd ==
  /\ Loaded
  /\ dropPc = "await"
  /\ dropPc' = "none"
  /\ LET newFiles == Dropped(AllFiles)
         existingFileNames == getExistingFileNames(dbInstance)
         IsNew(f) == f \notin existingFileNames
         newFilesToProcess == SelectSeq(newFiles, IsNew)
     IN IF newFilesToProcess = <<>>
          THEN files' = <<>> /\ status' = status
          ELSE files' = newFilesToProcess /\ status' = "IDLE"
  /\ UNCHANGED <<storeVars, urls, youtubeUrls, isProcessingCancelled,
                 progress, batchVars>>
  /\ UNCHANGED <<fnVars, env, userOps, loads>>

\* a row of the results table is selected and deleted; a saveToDb in
\* flight has run its statements already, so the delete comes after it
\* (hist.deleted: the items the running batch has finished whose record
\* is deleted)
handleDeleteSelected ==
  /\ Loaded
  /\ pc \notin {"save", "cancelSave"}
  /\ userOps < MaxUserOps
  /\ \E row \in RowSet(dbInstance) :
       LET r == deleteRecords(dbInstance, idb, {row.id}, "none")
           gone == {j \in hist.saved : items[j] = row.fileName}
       IN /\ dbInstance' = r.db
          /\ idb' = r.idb
          /\ ret' = r.ret
          /\ call' = [NoCall EXCEPT !.op = "deleteRecords", !.ids = {row.id}]
          /\ hist' = [hist EXCEPT !.deleted = @ \cup gone]
  /\ userOps' = userOps + 1
  /\ UNCHANGED <<exported, uiVars, pc, kind, items, closureStatus, i,
                 delayCount, results, processingErrors, analysis>>
  /\ UNCHANGED <<fnVars, env, dropPc, loads>>

SessionImportFiles ==
  {Database(<<Row(1, Plain("a.eml"), "2025-01-03", "Tema", JsonStringify(<<>>),
                  "<p>r</p>", JsonStringify(<<U1>>))>>, 1)}

\* the import input is disabled while status is a processing status
handleImportDb ==
  /\ Loaded
  /\ status \notin Processing
  /\ pc = "none"
  /\ userOps < MaxUserOps
  /\ \E file \in SessionImportFiles, storageOk \in BOOLEAN :
       LET r == importDb(dbInstance, idb, file, storageOk)
       IN /\ dbInstance' = r.db
          /\ idb' = r.idb
          /\ ret' = r.ret
          /\ call' = [NoCall EXCEPT !.op = "importDb", !.file = file,
                                    !.preEmpty = (dbInstance.rows = <<>>)]
          /\ status' = IF r.ret.threw THEN "ERROR" ELSE "COMPLETED"
  /\ userOps' = userOps + 1
  /\ UNCHANGED <<exported, files, urls, youtubeUrls, isProcessingCancelled,
                 progress, batchVars>>
  /\ UNCHANGED <<fnVars, env, dropPc, loads>>

\* what the page lets the user do while the database is still loading
WhileLoading ==
  /\ ~Loaded
  /\ \/ handleUrlsDropped
     \/ processUrls
     \/ FilesDropBegin

NextSession ==
  \/ Loaded /\ Next
  \/ WhileLoading
  \/ loadSqlJs
  \/ ResetBegin
  \/ FilesDropEnd
  \/ handleDeleteSelected
  \/ handleImportDb

SpecSession == InitSession /\ [][NextSession]_vars

(***************************************************************************)
(* Start-up, call by call.  loadSqlJs tests dbInstance once, on entry, and *)
(* keeps no record of a load in flight: every call that enters while       *)
(* dbInstance is null runs the whole load and assigns dbInstance.  A       *)
(* caller is followed from its call of loadSqlJs to the end of its own     *)
(* operation; requests to IndexedDB are served in the order they are made. *)
(***************************************************************************)

\* the record a batch saves at start-up
StartupEmails ==
  <<Email(Plain("d.eml"), "2025-01-05", "Tema", <<>>, "<p>r</p>",
          <<U5, U3>>, "completed")>>

\* saveToDb on the handle its own loadSqlJs returned; its file names come
\* from getExistingFileNames, which calls loadSqlJs again and reads the
\* database dbInstance names at that moment
saveToDbThrough(db, current, stored, emails, storageOk) ==
  IF emails = <<>>
    THEN [db |-> db, idb |-> stored, ret |-> NoResult]
  ELSE LET index == [DedupIndex(db) EXCEPT
                       !.names = getExistingFileNames(current)]
           acc == saveLoop(index, emails)
           committed == Database(acc.rows, acc.seq)
       IN [db |-> committed,
           idb |-> IF acc.count > 0 /\ storageOk THEN committed ELSE stored,
           ret |-> [threw |-> (acc.count > 0 /\ ~storageOk) \/ acc.errors > 0,
                    imported |-> acc.count, skipped |-> 0,
                    errors |-> acc.errors]]

\* the file names a read through database db shows its caller
NamesRead(c, db) ==
  IF c = "getAllEmails"
    THEN LET r == getAllEmails(db)
         IN {r.value[k].fileName : k \in 1..Len(r.value)}
    ELSE getExistingFileNames(db)

\* caller c resumes after `await loadSqlJs()` with handle h and runs its
\* operation to the end, in the same task
Resume(l, stored, c, h, storageOk) ==
  LET db == l.inst[h]
      at == [pc |-> "done", savedData |-> NoBlob, handle |-> h]
  IN IF c = "saveToDb"
       THEN LET res == saveToDbThrough(db, l.inst[l.cur], stored,
                                       StartupEmails, storageOk)
                added == getExistingFileNames(res.db)
                           \ getExistingFileNames(db)
            IN [loads |-> [l EXCEPT !.inst[h] = res.db,
                                    !.written = @ \cup added,
                                    !.callers[c] = at],
                idb |-> res.idb, ret |-> res.ret]
       ELSE [loads |-> [l EXCEPT !.missed = @ \cup (l.written \ NamesRead(c, db)),
                                 !.callers[c] = at],
             idb |-> stored, ret |-> NoResult]

ResumeStep(r) ==
  /\ loads' = r.loads
  /\ idb' = r.idb
  /\ ret' = r.ret
  /\ dbInstance' = r.loads.inst[r.loads.cur]

StartupFrame ==
  /\ UNCHANGED <<call, exported, uiVars, batchVars>>
  /\ UNCHANGED <<fnVars, env, dropPc, userOps>>

\* the call of loadSqlJs: `if (dbInstance) return dbInstance;`, else the
\* caller is suspended at `await window.initSqlJs(...)`.  loadData calls
\* getAllEmails when the page mounts, before any input of the user.
CallLoadSqlJs ==
  \E c \in Callers :
    /\ loads.callers[c].pc = "idle"
    /\ c = "getAllEmails" \/ loads.callers["getAllEmails"].pc # "idle"
    /\ IF loads.cur # 0
         THEN \E storageOk \in BOOLEAN :
                ResumeStep(Resume(loads, idb, c, loads.cur, storageOk))
         ELSE /\ loads' = [loads EXCEPT !.callers[c].pc = "initSqlJs"]
              /\ UNCHANGED <<dbInstance, idb, ret>>
    /\ StartupFrame

\* the saved data are read: the file of the bd folder, else the blob of
\* IndexedDB as it is when the read is served
ReadSavedData ==
  \E c \in Callers :
    /\ loads.callers[c].pc = "initSqlJs"
    /\ loads' = [loads EXCEPT
                   !.callers[c].pc = "loaded",
                   !.callers[c].savedData =
                      IF env.bdFolder # NoBlob THEN env.bdFolder ELSE idb]
    /\ UNCHANGED <<dbInstance, idb, ret>>
    /\ StartupFrame

\* the caller resumes with its saved data: `dbInstance = new SQL.Database`.
\* With saved data the write back to IndexedDB is requested and awaited;
\* without, the table is created and the new database is returned.
CreateDatabase ==
  \E c \in Callers :
    LET savedData == loads.callers[c].savedData
        new == Len(loads.inst) + 1
        created == [loads EXCEPT
                      !.inst = Append(@, IF savedData # NoBlob
                                           THEN savedData ELSE initTable),
                      !.cur = new]
    IN /\ loads.callers[c].pc = "loaded"
       /\ \E storageOk \in BOOLEAN :
            IF savedData # NoBlob
              THEN /\ loads' = [created EXCEPT !.callers[c].pc = "sync"]
                   /\ idb' = IF storageOk THEN savedData ELSE idb
                   /\ dbInstance' = savedData
                   /\ ret' = ret
              ELSE ResumeStep(Resume(created, idb, c, new, storageOk))
       /\ StartupFrame

\* `await saveDBToStorage(savedData)` is over, its error swallowed:
\* `return dbInstance`, the database the module variable names by now
SyncDone ==
  \E c \in Callers :
    /\ loads.callers[c].pc = "sync"
    /\ \E storageOk \in BOOLEAN :
         ResumeStep(Resume(loads, idb, c, loads.cur, storageOk))
    /\ StartupFrame

InitStartup ==
  \E bd \in {NoBlob} \cup BdFolderFiles, saved \in PersistedStores :
    /\ AppIdleIn(SessionEnv(MaxItems, MaxBatches, FALSE, bd), NoBlob,
                 IF saved = initTable THEN NoBlob ELSE saved)
    /\ FnIdle

NextStartup ==
  \/ CallLoadSqlJs
  \/ ReadSavedData
  \/ CreateDatabase
  \/ SyncDone

SpecStartup == InitStartup /\ [][NextStartup]_vars

(***************************************************************************)
(* Properties of the ingestion pipeline                                    *)
(***************************************************************************)
NormalEnd == pc = "done" /\ ~hist.cancelled /\ hist.quotaAt = 0 /\ ~hist.critical

\* C1: in every batch, if the enrichment of item K returns the quota
\* sentinel 'Error Cuota API', the status at the end of the batch is ERROR.
C1_QuotaEndsInError ==
  (pc = "done" /\ hist.quotaAt > 0) => status = "ERROR"

\* C2: if the enrichment of item K returns the quota sentinel, no item
\* K+1..N of the batch is extracted, enriched or appended to the store.
C2_QuotaHaltsBatch ==
  hist.quotaAt > 0 =>
    /\ pc = "done"
    /\ \A j \in hist.touched \cup hist.saved : j <= hist.quotaAt
    /\ Keys(dbInstance.rows) = hist.pre \o hist.expected
    /\ Len(hist.expected) <= Cardinality(hist.saved)

C2_Witness ==
  /\ pc = "done"
  /\ hist.quotaAt >= 1
  /\ hist.quotaAt < Len(items)
  /\ hist.touched = 1..hist.quotaAt

\* C3: whenever stopProcessing sets the cancellation flag during a running
\* batch, the batch ends with status IDLE.  Stated for the batches in which
\* no enrichment returned the quota sentinel and no save failed, so that
\* nothing but the cancellation decides the final status.
C3_CancelEndsIdle ==
  (pc = "done" /\ hist.cancelled /\ hist.quotaAt = 0 /\ ~hist.critical)
    => status = "IDLE"

\* C4: when a batch ends because the cancellation flag was observed, the
\* store holds exactly its pre-batch rows plus one row for each item that
\* produced a record and was not a duplicate: the cancel-path
\* saveToDb(results) adds no second row and loses none.
C4_CancelKeepsProcessed ==
  (pc = "done" /\ hist.observed) =>
    /\ Keys(dbInstance.rows) = hist.pre \o hist.expected
    /\ \A k \in 1..Len(results) :
         Cardinality({r \in RowSet(dbInstance) : r.fileName = results[k].fileName}) <= 1

C4_Witness ==
  /\ pc = "done"
  /\ hist.observed
  /\ call.op = "saveToDb"
  /\ call.emails = results
  /\ Len(results) >= 1
  /\ Len(hist.pre) >= 1
  /\ Len(hist.expected) >= 1
  /\ status = "IDLE"

\* C5: with no cancellation and no quota sentinel, if the enrichment of item
\* K (K < N) returns the generic-failure sentinel 'Error en Análisis', item
\* K+1 is still extracted/enriched and the batch ends COMPLETED.
C5_GenericSkipsItem ==
  NormalEnd =>
    \A k \in hist.genericAt :
      k < Len(items) => ((k + 1) \in hist.touched /\ status = "COMPLETED")

C5_Witness ==
  /\ NormalEnd
  /\ \E k \in hist.genericAt : k < Len(items) /\ (k + 1) \in hist.touched
  /\ status = "COMPLETED"

\* C6: after a batch with no cancellation and no quota sentinel, the store
\* has one row for every non-duplicate item whatever its outcome: a completed
\* record for a successful item, an error record for an item that failed
\* (thrown error, or the sentinel topic 'Error en Análisis').
C6_AllOutcomesStored ==
  NormalEnd =>
    \A j \in 1..Len(items) :
      \/ j \in hist.dupAt
      \/ \E k \in 1..Len(getAllEmails(dbInstance).value) :
           LET e == getAllEmails(dbInstance).value[k]
           IN /\ e.fileName = items[j]
              /\ (j \in hist.okAt) = (e.tematica # "Error en Análisis")

\* The part of C6 that the code keeps: every non-duplicate item whose
\* enrichment did not return the generic sentinel has its row.
C6_StoredUnlessSentinel ==
  NormalEnd =>
    \A j \in (1..Len(items)) \ hist.genericAt :
      \/ j \in hist.dupAt
      \/ \E k \in 1..Len(getAllEmails(dbInstance).value) :
           LET e == getAllEmails(dbInstance).value[k]
           IN /\ e.fileName = items[j]
              /\ (j \in hist.okAt) = (e.tematica # "Error en Análisis")

\* C24: at the end of every batch, whichever way it ends, the cancellation
\* flag isProcessingCancelled is false.
C24_FlagClearedAtEnd ==
  [][(pc # "done" /\ pc' = "done") => ~isProcessingCancelled']_vars

\* The part of C24 that the code keeps: a batch that ends at the code after
\* the loop (all items handled, quota stop, or a pause cut short on the
\* last item) leaves the flag false.
C24_ClearedAfterLoop ==
  [][(pc # "done" /\ pc' = "done" /\ ~hist'.observed /\ ~hist'.critical)
       => ~isProcessingCancelled']_vars

\* C25: once the flag is set during a batch, the step in flight for the
\* current item ends as it would have (the extraction goes on to the
\* enrichment, a record built from the enrichment or from a thrown error is
\* saved), and no further item is extracted or enriched.
C25_InFlightCompletes ==
  [][(isProcessingCancelled /\ Running) =>
       /\ hist'.touched \subseteq hist.touched
       /\ pc = "parse" => (pc' \in {"analyze", "save"} /\ i' = i)
       /\ (pc = "analyze" /\ analysis'.outcome \in {"ok", "throw"}) =>
            (pc' = "save" /\ i' = i /\ Len(results') = Len(results) + 1)
       /\ pc = "save" =>
            /\ call'.op = "saveToDb"
            /\ call'.emails = <<results[Len(results)]>>
            /\ ~Accepts(Keys(dbInstance'.rows), results[Len(results)])]_vars

C25_Witness ==
  /\ pc = "done"
  /\ Len(items) = 2
  /\ hist.cancelled
  /\ hist.observed
  /\ hist.touched = {1}
  /\ hist.saved = {1}
  /\ hist.dupAt = {}

\* the items whose handling has ended: a save was attempted, or the
\* enrichment returned the generic-failure sentinel
C26_Finished == hist.saved \cup hist.genericAt

C26_Index(name) == CHOOSE j \in 1..Len(items) : items[j] = name

\* C26: items are handled one at a time in increasing index: while item j
\* is extracted, enriched or saved, every earlier item has been started and
\* has ended, item j has not ended and no later item has been started; the
\* rows added by the batch are in input order.
C26_InputOrder ==
  /\ pc \in {"parse", "analyze", "save"} =>
       /\ hist.touched = 1..(i + 1)
       /\ \A j \in 1..i : j \in C26_Finished
       /\ (i + 1) \notin C26_Finished
  /\ Running \/ pc = "done" =>
       LET added == SubSeq(dbInstance.rows, Len(hist.pre) + 1, Len(dbInstance.rows))
       IN \A p, q \in 1..Len(added) :
            p < q => C26_Index(added[p].fileName) < C26_Index(added[q].fileName)

C26_Witness ==
  /\ pc = "done"
  /\ hist.saved = {1, 2}
  /\ Len(dbInstance.rows) = Len(hist.pre) + 2

\* C27: an item other than the first is extracted or enriched only at the
\* end of the 15th one-second sleep of the pause, with the flag found
\* clear; the sleeps are counted one by one; a sleep that ends with the
\* flag set ends the pause and the item is not extracted or enriched.
C27_Paced ==
  [][/\ (pc' \in {"parse", "analyze"} /\ i' > 0
           /\ (i' # i \/ pc \notin {"parse", "analyze"})) =>
          /\ pc = "pacing"
          /\ i' = i
          /\ delayCount = PacingSeconds - 1
          /\ ~isProcessingCancelled
     /\ (pc = "pacing" /\ pc' = "pacing") =>
          (delayCount' = delayCount + 1 \/ delayCount' = delayCount)
     /\ (pc = "pacing" /\ isProcessingCancelled) =>
          /\ pc' \notin {"pacing", "parse", "analyze"}
          /\ hist'.touched = hist.touched]_vars

C27_Witness ==
  /\ pc \in {"parse", "analyze"}
  /\ i = 1
  /\ hist.genericAt = {1}

\* C28: whenever the batch reports progress with current = c, each of the
\* first c items is in the persisted store unless it was a duplicate, and
\* no item after the one at position c (counted from 0) has been extracted,
\* enriched or stored.
C28_ProgressIsDurable ==
  Running =>
    /\ \A j \in 1..progress.current :
         \/ j \in hist.dupAt
         \/ \E k \in 1..Len(idb.rows) : idb.rows[k].fileName = items[j]
    /\ \A j \in hist.touched \cup hist.saved : j <= progress.current + 1

\* The part of C28 that the code keeps: no item after the one the progress
\* points at has been touched.
C28_LaterUntouched ==
  Running => \A j \in hist.touched \cup hist.saved : j <= progress.current + 1

\* C30: if saveToDb fails for one item, the rows of the earlier items are
\* neither removed nor altered, in memory and in the stored blob, and the
\* batch goes on to the next item.
C30_SaveFailureIsLocal ==
  [][(pc = "save" /\ pc' # "save" /\ ret'.threw) =>
       /\ SubSeq(dbInstance'.rows, 1, Len(dbInstance.rows)) = dbInstance.rows
       /\ idb' = idb
       /\ ~hist'.critical
       /\ IF i + 1 < Len(items) /\ ~isProcessingCancelled
            THEN pc' = "pacing" /\ i' = i + 1
            ELSE pc' \in {"done", "cancelSave"}]_vars

C30_Witness ==
  /\ pc = "done"
  /\ call.op = "saveToDb"
  /\ ret.threw
  /\ hist.saved = {1, 2}
  /\ ~hist.critical
  /\ Len(idb.rows) = Len(hist.pre) + 1
  /\ Len(dbInstance.rows) = Len(hist.pre) + 2

(***************************************************************************)
(* Properties of a whole session                                           *)
(***************************************************************************)

\* C21: a record deleted while the batch that created it is running is not
\* brought back by that batch: no row carries the name of an item whose
\* record was deleted during the batch
C21_DeletedStaysGone ==
  \A j \in hist.deleted : items[j] \notin getExistingFileNames(dbInstance)

\* C21, the part that holds: the per-item saves and the normal end of the
\* batch leave a deleted record alone; only the save of the cancel path
\* writes `results` again
C21_OnlyCancelSaveRestores ==
  [][(C21_DeletedStaysGone /\ pc # "cancelSave") => C21_DeletedStaysGone']_vars

\* C22: no file whose name is in the store is parsed or enriched
C22_StoredFileNotProcessed ==
  (kind = "files" /\ pc \in {"parse", "analyze"})
    => items[i + 1] \notin getExistingFileNames(dbInstance)

\* C22, the part that holds: the queue built by a drop holds no stored name
C22_FirstBatchSkipsStored ==
  (kind = "files" /\ pc \in {"parse", "analyze"} /\ hist.batches = 1
     /\ userOps = 0)
    => items[i + 1] \notin getExistingFileNames(dbInstance)

\* C23: right after resetDb has returned the store has no rows, in memory
\* and under 'main_db'
C23_ResetWipes ==
  (call.op = "resetDb" /\ Loaded)
    => /\ getAllEmails(dbInstance).value = <<>>
       /\ idb.rows = <<>>

\* C23, the part that holds: the store is empty when the bd folder serves
\* no database file
C23_WipedWithoutBdFile ==
  (call.op = "resetDb" /\ Loaded /\ env.bdFolder = NoBlob)
    => /\ getAllEmails(dbInstance).value = <<>>
       /\ idb.rows = <<>>

\* C29: status is never IDLE while a batch is running
C29_NotIdleWhileRunning == Running => status # "IDLE"

\* C29, the part that holds: a batch starts only while status is IDLE, and
\* only when no batch function is active
C29_StartsOnlyWhenIdle ==
  [][(pc = "none" /\ pc' # "none") => status = "IDLE"]_vars

\* C29, the part that holds: once the database is loaded and no drop is
\* suspended, a running batch keeps status away from IDLE
C29_NotIdleOnceLoaded ==
  [][(Running /\ status # "IDLE" /\ dropPc = "none" /\ Running')
       => status' # "IDLE"]_vars

C35_ErrorRecords(db) ==
  {r.fileName : r \in {x \in RowSet(db) : x.tematica = "Error en Análisis"}}

\* C35: a file whose extraction or enrichment threw has an error record
\* under its name, and is not analysed again while that record is in the
\* store
C35_ErrorFileNotReanalysed ==
  (kind = "files" /\ pc \in {"parse", "analyze"})
    => items[i + 1] \notin C35_ErrorRecords(dbInstance)

\* C35, the part that holds: the error record of a file of a freshly
\* dropped queue is stored under the file's name
C35_ErrorRecordStored ==
  [][(/\ kind = "files" /\ pc = "save" /\ pc' # "save"
      /\ (i + 1) \in hist.failedAt
      /\ hist.batches = 1 /\ userOps = 0)
       => items[i + 1] \in C35_ErrorRecords(dbInstance')]_vars

\* C35, the part that holds: a drop queues no file that has a record
C35_DropFiltersStored ==
  [][(files' # files /\ files' # <<>>) =>
       \A k \in 1..Len(files') :
         files'[k] \notin getExistingFileNames(dbInstance')]_vars

(***************************************************************************)
(* Properties of the record store                                          *)
(***************************************************************************)
\* C7: from an empty store, after any sequence of saveToDb, importDb and
\* deleteRecords calls, no two stored rows have the same fileName and no two
\* stored rows contain URLs that are equal after normalizeUrl.
C7_NoDuplicateRows ==
  \A a, b \in 1..Len(dbInstance.rows) :
    a # b =>
      /\ dbInstance.rows[a].fileName # dbInstance.rows[b].fileName
      /\ \A u \in RowUrls(dbInstance.rows[a]), v \in RowUrls(dbInstance.rows[b]) :
           normalizeUrl(u) # normalizeUrl(v)

C7_Witness ==
  /\ Len(dbInstance.rows) >= 2
  /\ \/ call.op = "saveToDb" /\ Len(call.emails) >= 2
     \/ call.op = "importDb" /\ ret.skipped >= 1
  /\ ret.imported >= 1
  /\ \E e \in SeqToSet(call.emails) \cup SeqToSet(call.file.rows) :
       /\ e.fileName # EmptyStr
       /\ e.fileName \notin {r.fileName : r \in RowSet(dbInstance)}

RECURSIVE C8_Expected(_, _)
C8_Expected(keys, emails) ==
  IF emails = <<>> THEN keys
  ELSE C8_Expected(
         IF Accepts(keys, Head(emails))
           THEN Append(keys, <<Head(emails).fileName, JsonStringify(Head(emails).urls)>>)
           ELSE keys,
         Tail(emails))

\* C8: saveToDb inserts a record if and only if it has a fileName, none of
\* its URLs (raw against the stored URLs, normalized against the normalized
\* stored URLs) is in the dedup index and its fileName is not in the index;
\* the index includes the records accepted earlier in the same call.
C8_SaveInsertsIffNew ==
  [][call'.op = "saveToDb" =>
       Keys(dbInstance'.rows) = C8_Expected(Keys(dbInstance.rows), call'.emails)]_vars

C8_Witness ==
  /\ call.op = "saveToDb"
  /\ Len(call.emails) = 2
  /\ ret.imported = 1
  /\ ret.errors = 0
  /\ call.emails[1].fileName # call.emails[2].fileName
  /\ Len(dbInstance.rows) >= 2

RECURSIVE C9_Skipped(_, _)
C9_Skipped(keys, values) ==
  IF values = <<>> THEN 0
  ELSE LET row == Head(values)
           rowUrls == RowUrls(row)
           malformed == row.fileName = EmptyStr
           duplicate == \/ row.fileName \in KeyNames(keys)
                        \/ Overlap(rowUrls, KeyUrls(keys))
       IN IF malformed \/ duplicate
            THEN 1 + C9_Skipped(keys, Tail(values))
            ELSE C9_Skipped(
                   Append(keys, <<row.fileName,
                                  JsonStringify(IF row.urls.kind = "array"
                                                  THEN row.urls.arr ELSE <<>>)>>),
                   Tail(values))

\* C9: importDb over a blob with M rows returns imported + skipped = M, where
\* skipped counts exactly the rows that are duplicates (by URL or fileName,
\* against the store or against rows accepted earlier in the same import) or
\* have no fileName, and the store grows by exactly `imported` rows.
C9_ImportCounts ==
  [][(call'.op = "importDb" /\ call'.file.kind = "ok" /\ ~ret'.threw) =>
       /\ ret'.imported + ret'.skipped = Len(call'.file.rows)
       /\ ret'.skipped = C9_Skipped(Keys(dbInstance.rows), call'.file.rows)
       /\ Len(dbInstance'.rows) = Len(dbInstance.rows) + ret'.imported]_vars

C9_Witness ==
  /\ call.op = "importDb"
  /\ Len(call.file.rows) >= 2
  /\ ~call.preEmpty
  /\ ret.imported >= 1
  /\ ret.skipped >= 1
  /\ ret.errors = 0

Content(r) ==
  <<r.fileName, r.fechaEnvio, r.tematica, r.etiquetas, r.contenido, r.urls>>

Contents(rows) == [k \in 1..Len(rows) |-> Content(rows[k])]

\* C10: importing the blob produced by exportDb into an empty store yields
\* imported = number of rows of the exported store, skipped = 0, and a store
\* with the same rows (fileName, date, topic, tags, content, urls).
C10_RoundTrip ==
  [][(call'.op = "importDb" /\ call'.fromExport /\ call'.preEmpty /\ ~ret'.threw) =>
       /\ ret'.imported = Len(exported.rows)
       /\ ret'.skipped = 0
       /\ Contents(dbInstance'.rows) = Contents(exported.rows)]_vars

\* The counts of C10 alone: imported = number of exported rows, skipped = 0.
C10_RoundTripCounts ==
  [][(call'.op = "importDb" /\ call'.fromExport /\ call'.preEmpty /\ ~ret'.threw) =>
       /\ ret'.imported = Len(exported.rows)
       /\ ret'.skipped = 0]_vars

(***************************************************************************)
(* normalizeUrl as a function of its argument                              *)
(***************************************************************************)
QueryParams ==
  {Param("t", "9"), Param("utm_source", "x"), Param("ref", "y"), Param("x", "1")}

Queries == {<<>>} \cup SeqsUpTo(QueryParams, MaxQuery)

Paths ==
  {<<>>, <<"a", "b">>, <<"u", "status", "1">>, <<"u", "Status", "2", "photo">>}

UrlInputs ==
  {Str(ws, scheme, userinfo, host, port, path, query) :
     ws \in BOOLEAN, scheme \in {"", "http", "https", "HTTPS"},
     userinfo \in {"", "me"},
     host \in {"x.com", "twitter.com", "Twitter.com", "github.com"},
     port \in {"", "443", "8080"}, path \in Paths, query \in Queries}

InitNormalize ==
  /\ AppIdle(initTable, NoBlob)
  /\ GeminiIdle("none")
  /\ fnPc = "input"
  /\ fnInput \in UrlInputs
  /\ fnOnce = EmptyStr
  /\ fnTwice = EmptyStr

NormalizeOnce ==
  /\ fnPc = "input"
  /\ fnOnce' = normalizeUrl(fnInput)
  /\ fnPc' = "once"
  /\ UNCHANGED <<storeVars, uiVars, batchVars, sessionVars, fnInput, fnTwice>>
  /\ UNCHANGED <<gPc, gFn, attempt, delay, gResult, gHist>>

NormalizeTwice ==
  /\ fnPc = "once"
  /\ fnTwice' = normalizeUrl(fnOnce)
  /\ fnPc' = "twice"
  /\ UNCHANGED <<storeVars, uiVars, batchVars, sessionVars, fnInput, fnOnce>>
  /\ UNCHANGED <<gPc, gFn, attempt, delay, gResult, gHist>>

NextNormalize ==
  \/ NormalizeOnce
  \/ NormalizeTwice

SpecNormalize == InitNormalize /\ [][NextNormalize]_vars

\* C11: normalizeUrl is idempotent: for every input string u,
\* normalizeUrl(normalizeUrl(u)) = normalizeUrl(u).
C11_Idempotent == fnPc = "twice" => fnTwice = fnOnce

C12_SocialForm(u) ==
  /\ ~u.ws
  /\ u.scheme \in {"http", "https"}
  /\ u.userinfo = ""
  /\ u.host \in {"x.com", "twitter.com"}
  /\ u.port = ""
  /\ Len(u.path) >= 3
  /\ u.path[1] # ""
  /\ u.path[2] = "status"
  /\ u.path[3] \in NumericIds

\* C12: every URL http(s)://x.com/{user}/status/{id}... or
\* http(s)://twitter.com/{user}/status/{id}..., whatever follows the id, is
\* mapped to https://x.com/{user}/status/{id}.
C12_SocialCollapse ==
  (fnPc # "input" /\ C12_SocialForm(fnInput)) =>
    fnOnce = Https("x.com", <<fnInput.path[1], "status", fnInput.path[3]>>, <<>>)

C12_Witness ==
  /\ fnPc = "once"
  /\ fnInput = Str(FALSE, "http", "", "twitter.com", "", <<"u", "status", "1">>,
                   <<Param("x", "1"), Param("t", "9")>>)
  /\ fnOnce = Https("x.com", <<"u", "status", "1">>, <<>>)

C13_NotTracking(p) ==
  p.k \notin {"t", "s", "utm_source", "utm_medium", "utm_campaign", "ref"}

maxAttempts == 5

initialDelay == 10000

TransientErrors ==
  {"status 429", "code 429", "message 429", "message quota",
   "message RESOURCE_EXHAUSTED"}

OtherErrors == {"status 503", "No response from AI", "Error parseando respuesta JSON"}

\* what one generateContent call, and the parsing of its response, ends in
ServiceOutcomes == {"ok"} \cup TransientErrors \cup OtherErrors

\* the URL under analysis, and another one the service may list
InputUrl == "https://youtu.be/1"

OtherUrl == "https://example.org/"

\* a parsed response: its `urls`, and its tematica, etiquetas and
\* contenido_resumido taken together: related to the transcript,
\* unrelated to it, or of a type other than the schema's (a tematica or
\* a tag that is not a string)
ResponseUrls ==
  {ResponseField(FALSE, <<>>), ResponseField(TRUE, <<>>),
   ResponseField(TRUE, <<OtherUrl>>), ResponseField(TRUE, <<OtherUrl, InputUrl>>)}

Responses ==
  {[urls |-> u, fields |-> f] :
     u \in ResponseUrls, f \in {"related", "unrelated", "malformed"}}

\* hasValidTranscript && isYouTube && scrapedText
onTranscriptPath == gFn = "video"

\* validateYouTubeResponse: `.toLowerCase()` of a tematica, a tag or a
\* summary that is not a string throws a TypeError
ValidationError == "TypeError in validateYouTubeResponse"

validateYouTubeResponse(response) ==
  [threw |-> response.fields = "malformed",
   isValid |-> response.fields = "related"]

\* analyzeUrlContent: urls that is not an array becomes []; the original
\* url is put in front unless the array includes it
ensureOriginalUrl_Appends(u, url) ==
  LET arr == IF u.isArray THEN u.arr ELSE <<>>
  IN IF url \in SeqToSet(arr) THEN arr ELSE arr \o <<url>>

ensureOriginalUrl(u, url) ==
  LET arr == IF u.isArray THEN u.arr ELSE <<>>
  IN IF url \in SeqToSet(arr) THEN arr ELSE <<url>> \o arr

\* analyzeEmailContent: urls that is not an array becomes []
normalizeResponseUrls(u) == IF u.isArray THEN u.arr ELSE <<>>

\* `urls` of the sentinel results: [url] in analyzeUrlContent, [] in
\* analyzeEmailContent
sentinelUrls == IF gFn = "email" THEN <<>> ELSE <<InputUrl>>

isTransient_Sticky(error) ==
  error \in TransientErrors \/ (gHist.calls > 0 /\ ~gHist.allOther)

isTransient_StatusOnly(error) == error = "status 429"

isTransient(error) == error \in TransientErrors

lastAttempt_Never(a) == a > maxAttempts

lastAttempt(a) == a = maxAttempts

backoff_Doubles(d) == d * 2

backoff(d) == (d * 3) \div 2

normalizeVars == <<fnPc, fnInput, fnOnce, fnTwice>>

InitRetry ==
  /\ AppIdle(initTable, NoBlob)
  /\ NormalizeIdle
  /\ GeminiIdle("idle")

\* initGemini throws when no API key is configured; otherwise the function
\* runs to its first generateContent call
StartAnalysis(fn) ==
  /\ gPc = "idle"
  /\ gFn' = fn
  /\ \E apiKey \in BOOLEAN :
       IF apiKey
         THEN /\ attempt' = 1
              /\ delay' = initialDelay
              /\ gPc' = "call"
              /\ gResult' = gResult
         ELSE /\ gPc' = "returned"
              /\ gResult' = [NoGResult EXCEPT !.threw = TRUE]
              /\ UNCHANGED <<attempt, delay>>
  /\ UNCHANGED <<storeVars, uiVars, batchVars, sessionVars, normalizeVars, gHist>>

analyzeEmailContent == StartAnalysis("email")

analyzeUrlContent == StartAnalysis("url")

\* analyzeUrlContent on a video whose transcript was fetched
analyzeVideoWithTranscript == StartAnalysis("video")

Returns(topic) ==
  /\ gPc' = "returned"
  /\ gResult' = [NoGResult EXCEPT !.tematica = topic, !.urls = sentinelUrls]
  /\ UNCHANGED <<attempt, delay>>

\* the try block after JSON.parse, when nothing in it throws
ReturnsResponse(response) ==
  /\ gPc' = "returned"
  /\ gResult' =
       [tematica |-> "Tema", threw |-> FALSE,
        urls |-> IF gFn = "email"
                   THEN normalizeResponseUrls(response.urls)
                   ELSE ensureOriginalUrl(response.urls, InputUrl),
        warnings |-> onTranscriptPath /\ ~validateYouTubeResponse(response).isValid]
  /\ UNCHANGED <<attempt, delay>>

Waits ==
  /\ gPc' = "wait"
  /\ UNCHANGED <<attempt, delay, gResult>>

\* generateContent settled and the rest of the try block, or the catch
\* block up to its return or its `await wait(delay)`, has run
GenerateContentDone ==
  /\ gPc = "call"
  /\ \E served \in ServiceOutcomes :
     \E response \in (IF served = "ok" THEN Responses ELSE {NoResponse}) :
       LET o == IF /\ served = "ok"
                   /\ onTranscriptPath
                   /\ validateYouTubeResponse(response).threw
                  THEN ValidationError ELSE served
           h == [gHist EXCEPT !.calls = @ + 1, !.last = o,
                              !.response = response,
                              !.allTransient = @ /\ o \in TransientErrors,
                              !.allOther = @ /\ o \in OtherErrors \cup {ValidationError}]
       IN IF o = "ok"
            THEN ReturnsResponse(response) /\ gHist' = h
          ELSE IF isTransient(o)
            THEN IF attempt < maxAttempts
                   THEN Waits /\ gHist' = [h EXCEPT !.waits = Append(@, delay)]
                   ELSE Returns("Error Cuota API") /\ gHist' = h
          ELSE IF lastAttempt(attempt)
            THEN Returns("Error en Análisis") /\ gHist' = h
          ELSE Waits /\ gHist' = [h EXCEPT !.waits = Append(@, delay)]
  /\ UNCHANGED <<storeVars, uiVars, batchVars, sessionVars, normalizeVars, gFn>>

\* the timer fired: delay *= 1.5; attempt++; then the loop condition
WaitDone ==
  /\ gPc = "wait"
  /\ delay' = backoff(delay)
  /\ attempt' = attempt + 1
  /\ IF attempt + 1 <= maxAttempts
       THEN gPc' = "call" /\ gResult' = gResult
       ELSE /\ gPc' = "returned"
            /\ gResult' = [NoGResult EXCEPT !.tematica = "Error", !.urls = sentinelUrls]
  /\ UNCHANGED <<storeVars, uiVars, batchVars, sessionVars, normalizeVars, gFn, gHist>>

NextRetry ==
  \/ analyzeEmailContent
  \/ analyzeUrlContent
  \/ analyzeVideoWithTranscript
  \/ GenerateContentDone
  \/ WaitDone

SpecRetry == InitRetry /\ [][NextRetry]_vars

\* every generateContent call settles and every timer fires
SpecRetryLive == SpecRetry /\ WF_vars(GenerateContentDone) /\ WF_vars(WaitDone)

C14_Failed == gHist.last \in TransientErrors \cup OtherErrors \cup {ValidationError}

C14_Safe ==
  (gPc = "returned" /\ gHist.calls > 0) =>
    /\ ~gResult.threw
    /\ gResult.tematica # "Error"
    /\ C14_Failed => gResult.tematica \in {"Error Cuota API", "Error en Análisis"}

\* C14: whatever the outcomes of the service calls, analyzeEmailContent and
\* analyzeUrlContent, once in the retry loop, end by returning a result;
\* they never throw out of the loop, the topic of a failed analysis is one
\* of the two sentinels, and the fall-through topic 'Error' is never returned.
C14_ReturnsSentinel == [](C14_Safe) /\ ((gPc = "call") ~> (gPc = "returned"))

C14_Witness ==
  /\ gPc = "returned"
  /\ gHist.calls = maxAttempts
  /\ ~gHist.allTransient
  /\ ~gHist.allOther
  /\ gResult.tematica = "Error en Análisis"

C15_Waits == <<10000, 15000, 22500, 33750>>

\* C15: within one call the service is called at most 5 times; the wait
\* before call n (n = 2..5) is 10000 * 1.5^(n-2) ms; no wait follows the
\* fifth failed attempt.
C15_Backoff ==
  /\ gHist.calls <= 5
  /\ Len(gHist.waits) <= 4
  /\ \A n \in 1..Len(gHist.waits) : gHist.waits[n] = C15_Waits[n]
  /\ gPc = "call" => Len(gHist.waits) = gHist.calls
  /\ gPc \in {"wait", "returned"} /\ gHist.calls > 0 =>
       Len(gHist.waits) = (IF gPc = "wait" THEN gHist.calls ELSE gHist.calls - 1)

C15_Witness ==
  /\ gPc = "returned"
  /\ gHist.calls = 5
  /\ gHist.waits = C15_Waits
  /\ C14_Failed

LoadedStores ==
  {initTable,
   Database(<<Row(1, Plain("b.eml"), "2025-01-02", "Tema", JsonStringify(<<"ia">>),
                  "<p>r</p>", JsonStringify(<<U2>>))>>, 1),
   Database(<<Row(1, Plain("e.eml"), "2025-02-01", "Tema", JsonInvalid,
                  "<p>r</p>", JsonStringify(<<U5>>)),
              Row(2, Plain("d.eml"), "2025-02-02", "Tema", JsonNull,
                  "<p>r</p>", JsonScalar)>>, 2)}

InitPersist ==
  \E saved \in LoadedStores :
    InitWith(saved, IF saved = initTable THEN NoBlob ELSE saved)

PersistEmails ==
  {e \in EmailInputs :
     e.fileName \in {Plain("a.eml"), Plain("c.eml"), EmptyStr} /\ e.tematica # ""}

PersistFiles == {f \in UploadedFiles : Len(f.rows) <= 1}

SaveToDbPersist ==
  \E emails \in SeqsUpTo(PersistEmails, MaxCall), storageOk \in BOOLEAN :
    /\ dbInstance.seq + Len(emails) <= MaxSeq
    /\ LET r == saveToDb(dbInstance, idb, emails, storageOk)
       IN /\ dbInstance' = r.db
          /\ idb' = r.idb
          /\ ret' = r.ret
          /\ call' = [NoCall EXCEPT !.op = "saveToDb", !.emails = emails]
    /\ UNCHANGED <<exported, uiVars, batchVars, fnVars, sessionVars>>

ImportDbPersist ==
  \E file \in PersistFiles, storageOk \in BOOLEAN :
    /\ dbInstance.seq + Len(file.rows) <= MaxSeq
    /\ LET r == importDb(dbInstance, idb, file, storageOk)
       IN /\ dbInstance' = r.db
          /\ idb' = r.idb
          /\ ret' = r.ret
          /\ call' = [NoCall EXCEPT !.op = "importDb", !.file = file]
    /\ UNCHANGED <<exported, uiVars, batchVars, fnVars, sessionVars>>

DeleteRecordsPersist ==
  \E ids \in SUBSET {r.id : r \in RowSet(dbInstance)}, fault \in DeleteFaults :
    /\ fault # "none" => ids # {}
    /\ LET r == deleteRecords(dbInstance, idb, ids, fault)
       IN /\ dbInstance' = r.db
          /\ idb' = r.idb
          /\ ret' = r.ret
          /\ call' = [NoCall EXCEPT !.op = "deleteRecords", !.ids = ids,
                                    !.fault = fault]
    /\ UNCHANGED <<exported, uiVars, batchVars, fnVars, sessionVars>>

GetAllEmailsCall ==
  /\ ret' = [NoResult EXCEPT !.threw = getAllEmails(dbInstance).threw]
  /\ call' = [NoCall EXCEPT !.op = "getAllEmails"]
  /\ UNCHANGED <<dbInstance, idb, exported, uiVars, batchVars, fnVars, sessionVars>>

NextPersist ==
  \/ SaveToDbPersist
  \/ ImportDbPersist
  \/ DeleteRecordsPersist
  \/ GetAllEmailsCall

SpecPersist == InitPersist /\ [][NextPersist]_vars

Mutating == {"saveToDb", "importDb", "deleteRecords"}

\* C17: after every saveToDb, importDb or deleteRecords call that returns
\* without error, the blob stored under 'main_db' holds exactly the rows of
\* the in-memory store.
C17_BlobMatchesStore ==
  (call.op \in Mutating /\ ~ret.threw) => idb.rows = dbInstance.rows

\* The part of C17 that the code keeps: a call that changes the in-memory
\* rows and returns without error has written them.
C17_BlobWrittenOnChange ==
  [][(call'.op \in Mutating /\ ~ret'.threw /\ dbInstance'.rows # dbInstance.rows)
       => idb'.rows = dbInstance'.rows]_vars

\* C18: when a step of deleteRecords fails (the DELETE, the COMMIT or the
\* write of the blob), the call raises and the in-memory store has exactly
\* the rows it had before the call.
C18_DeleteRollsBack ==
  [][(call'.op = "deleteRecords" /\ call'.fault # "none")
       => (ret'.threw /\ dbInstance'.rows = dbInstance.rows)]_vars

\* The part of C18 that the code keeps: a failing step always raises, and a
\* failing DELETE or COMMIT leaves the in-memory rows as they were.
C18_StatementFailureRollsBack ==
  [][(call'.op = "deleteRecords" /\ call'.fault # "none")
       => /\ ret'.threw
          /\ call'.fault \in {"DELETE", "COMMIT"}
               => dbInstance'.rows = dbInstance.rows]_vars

\* the rows are kept in insertion order: position in db.rows is the
\* order of the INSERT statements
InsertedLater(db, a, b) ==
  \E j, k \in 1..Len(db.rows) : j > k /\ db.rows[j].id = a /\ db.rows[k].id = b

C19_Result ==
  (call.op = "getAllEmails" /\ ~ret.threw) =>
    LET v == getAllEmails(dbInstance).value
    IN /\ Len(v) = Len(dbInstance.rows)
       /\ \A r \in RowSet(dbInstance) :
            Cardinality({k \in 1..Len(v) : v[k].id = r.id}) = 1
       /\ \A p, q \in 1..Len(v) :
            InsertedLater(dbInstance, v[p].id, v[q].id) => p < q

C19_Ids ==
  /\ dbInstance'.seq >= dbInstance.seq
  /\ \A r \in RowSet(dbInstance') :
       \/ r \in RowSet(dbInstance)
       \/ /\ r.id > dbInstance.seq
          /\ \A o \in RowSet(dbInstance) : r.id > o.id

\* C19: getAllEmails returns every stored row exactly once, a row inserted
\* later before a row inserted earlier, also after deletions and imports;
\* the ids grow with every insert and no id is given twice.
C19_NewestFirst == [](C19_Result) /\ [][C19_Ids]_vars

C19_Witness ==
  /\ call.op = "getAllEmails"
  /\ ~ret.threw
  /\ Len(dbInstance.rows) = 2
  /\ dbInstance.seq = 3
  /\ dbInstance.rows[2].id = 3

\* C20: getAllEmails returns arrays for the tags and urls of every row and
\* never raises because of a stored field.
C20_DecodesOrEmpty ==
  call.op = "getAllEmails" =>
    LET r == getAllEmails(dbInstance)
    IN /\ ~ret.threw
       /\ ~r.threw
       /\ \A k \in 1..Len(r.value) :
            /\ JsonIsArray(r.value[k].etiquetas)
            /\ JsonIsArray(r.value[k].urls)

\* The part of C20 that the code keeps: a missing (NULL or empty) field is
\* returned as an empty array.
C20_MissingIsEmpty ==
  (call.op = "getAllEmails" /\ ~ret.threw) =>
    \A r \in RowSet(dbInstance) :
      \E k \in 1..Len(getAllEmails(dbInstance).value) :
        LET e == getAllEmails(dbInstance).value[k]
        IN /\ e.id = r.id
           /\ ~JsonTruthy(r.etiquetas) => e.etiquetas = JsonStringify(<<>>)
           /\ ~JsonTruthy(r.urls) => e.urls = JsonStringify(<<>>)

C32_Listed ==
  IF gHist.response.urls.isArray THEN gHist.response.urls.arr ELSE <<>>

\* C32: every result analyzeUrlContent returns for a url has that url among
\* its urls: the sentinels, the fall-through result, and a service response,
\* where it is put in front of the listed urls when they did not contain it
C32_UrlPresent ==
  (gPc = "returned" /\ gFn \in {"url", "video"} /\ ~gResult.threw) =>
    /\ InputUrl \in SeqToSet(gResult.urls)
    /\ (gHist.last = "ok" /\ InputUrl \in SeqToSet(C32_Listed)) =>
         gResult.urls = C32_Listed
    /\ (gHist.last = "ok" /\ InputUrl \notin SeqToSet(C32_Listed)) =>
         (Head(gResult.urls) = InputUrl /\ Tail(gResult.urls) = C32_Listed)

C32_Witness ==
  /\ gPc = "returned"
  /\ gFn = "url"
  /\ gHist.last = "ok"
  /\ C32_Listed = <<OtherUrl>>
  /\ gResult.urls = <<InputUrl, OtherUrl>>

\* a response has just been received and parsed on the transcript path
C33_Responded ==
  /\ gPc = "call"
  /\ gFn = "video"
  /\ gHist'.calls = gHist.calls + 1
  /\ gHist'.response # NoResponse

\* C33: on the transcript path the check of the response never changes the
\* outcome: a response received is the result returned, with the warnings
\* attached when there are any, and the check causes no retry and no
\* sentinel
C33_CheckIsAdvisory ==
  [][C33_Responded =>
       /\ gPc' = "returned"
       /\ gResult'.tematica = "Tema"
       /\ gResult'.warnings = (gHist'.response.fields # "related")]_vars

\* C33, the part that holds: a response whose fields have the types of the
\* schema is returned, with warnings when the check found some
C33_WellTypedIsReturned ==
  [][(C33_Responded /\ gHist'.response.fields # "malformed") =>
       /\ gPc' = "returned"
       /\ gResult'.tematica = "Tema"
       /\ gResult'.warnings = (gHist'.response.fields = "unrelated")]_vars

\* C33, the other way it fails: five responses the check throws on end in
\* the generic-failure sentinel
C33_NoSentinelFromCheck ==
  ~(/\ gPc = "returned"
    /\ gFn = "video"
    /\ gHist.response.fields = "malformed"
    /\ gResult.tematica = "Error en Análisis")

\* C34: when the 5 attempts of one analysis fail with errors of both
\* classes, the sentinel depends only on the class of the fifth error:
\* transient gives 'Error Cuota API', non-transient 'Error en Análisis'
C34_Mixed ==
  /\ gPc = "returned"
  /\ gHist.calls = maxAttempts
  /\ C14_Failed
  /\ ~gHist.allTransient
  /\ ~gHist.allOther

C34_LastErrorDecides ==
  C34_Mixed =>
    gResult.tematica = (IF gHist.last \in TransientErrors
                          THEN "Error Cuota API" ELSE "Error en Análisis")

C34_Witness ==
  /\ C34_Mixed
  /\ gHist.last \in TransientErrors
  /\ gResult.tematica = "Error Cuota API"

C36_OtherStatus(emails) ==
  [k \in 1..Len(emails) |->
     [emails[k] EXCEPT !.status = IF @ = "error" THEN "completed" ELSE "error"]]

\* C36: getAllEmails reports status 'completed' for every row, also for a
\* row saved from a record with status 'error': what saveToDb stores does
\* not depend on the status it was given
C36_StatusNotStored ==
  [][call'.op = "saveToDb" =>
       /\ dbInstance' =
            saveToDb(dbInstance, idb, C36_OtherStatus(call'.emails), TRUE).db
       /\ LET all == getAllEmails(dbInstance').value
          IN \A k \in 1..Len(all) : all[k].status = "completed"]_vars

C36_Witness ==
  /\ call.op = "saveToDb"
  /\ ~getAllEmails(dbInstance).threw
  /\ \E k \in 1..Len(call.emails) :
       /\ call.emails[k].status = "error"
       /\ \E n \in 1..Len(getAllEmails(dbInstance).value) :
            LET e == getAllEmails(dbInstance).value[n]
            IN /\ e.fileName = call.emails[k].fileName
               /\ e.tematica = "Error en Análisis"
               /\ e.status = "completed"

C37_Missing(emails) == {k \in 1..Len(emails) : emails[k].fileName = EmptyStr}

C37_Accepted(keys, emails) == Len(C8_Expected(keys, emails)) - Len(keys)

\* C37: a saveToDb call holding a record without fileName next to valid
\* records inserts every valid record that is no duplicate, commits and
\* persists them, and then raises an error; the record without fileName
\* is not inserted
C37_PartialSaveThenError ==
  [][(/\ call'.op = "saveToDb"
      /\ C37_Missing(call'.emails) # {}
      /\ C37_Missing(call'.emails) # 1..Len(call'.emails))
       => /\ ret'.threw
          /\ Keys(dbInstance'.rows)
               = C8_Expected(Keys(dbInstance.rows), call'.emails)
          /\ ret'.imported = C37_Accepted(Keys(dbInstance.rows), call'.emails)
          /\ ret'.imported > 0 => idb' = dbInstance'
          /\ EmptyStr \notin KeyNames(Keys(dbInstance'.rows))]_vars

C37_Witness ==
  /\ call.op = "saveToDb"
  /\ C37_Missing(call.emails) # {}
  /\ ret.threw
  /\ ret.imported >= 1
  /\ idb = dbInstance
  /\ \E k \in 1..Len(call.emails) :
       call.emails[k].fileName \in KeyNames(Keys(dbInstance.rows))

\* C38: importing the blob that was imported by the call before inserts no
\* row, returns imported = 0 and skipped = the blob's row count, and leaves
\* the store and the stored blob as they are
C38_SecondImportIsNoOp ==
  [][(call'.op = "importDb" /\ call'.again /\ call'.file.kind = "ok") =>
       /\ ~ret'.threw
       /\ ret'.imported = 0
       /\ ret'.skipped = Len(call'.file.rows)
       /\ dbInstance' = dbInstance
       /\ idb' = idb]_vars

C38_Witness ==
  /\ call.op = "importDb"
  /\ call.again
  /\ Len(call.file.rows) = MaxCall
  /\ ret.imported = 0
  /\ ret.skipped = Len(call.file.rows)
  /\ \E k \in 1..Len(call.file.rows) :
       /\ call.file.rows[k].fileName \in KeyNames(Keys(dbInstance.rows))
       /\ ~JsonParses(call.file.rows[k].urls)

\* C31: importDb leaves every row that was in the store before the call as
\* it was, at its place; an import rejected as a whole (unreadable table,
\* no fileName column) changes neither the store nor the stored blob
C31_ImportKeepsRows ==
  [][call'.op = "importDb" =>
       /\ Len(dbInstance'.rows) >= Len(dbInstance.rows)
       /\ SubSeq(dbInstance'.rows, 1, Len(dbInstance.rows)) = dbInstance.rows
       /\ call'.file.kind # "ok" =>
            (ret'.threw /\ dbInstance' = dbInstance /\ idb' = idb)]_vars

C31_Witness ==
  /\ call.op = "importDb"
  /\ ret.imported >= 1
  /\ Len(dbInstance.rows) > ret.imported

C31_RejectedWitness ==
  /\ call.op = "importDb"
  /\ call.file.kind # "ok"
  /\ ret.threw
  /\ dbInstance.rows # <<>>


(***************************************************************************)
(* Properties of start-up                                                  *)
(***************************************************************************)
HandlesHeld == {loads.callers[c].handle : c \in Callers} \ {0}

\* at most one database is created
C39_OneInstance == Len(loads.inst) <= 1

\* the callers of loadSqlJs all received the same database
C39_SameHandle == Cardinality(HandlesHeld) <= 1

\* the rows written through any handle are in the database dbInstance names
C39_WritesVisible ==
  loads.cur # 0 =>
    loads.written \subseteq getExistingFileNames(loads.inst[loads.cur])

\* no read missed a row written before it
C39_ReadsSeeWrites == loads.missed = {}

\* C39: under any interleaving of the store operations that call loadSqlJs
\* before the first initialisation has finished, exactly one database is
\* created, every caller operates on it, and no write made through one
\* caller's handle is invisible to a later read
C39_OneSharedInstance ==
  /\ C39_OneInstance
  /\ C39_SameHandle
  /\ C39_WritesVisible
  /\ C39_ReadsSeeWrites

\* a call of loadSqlJs made once dbInstance is set operates on the database
\* dbInstance names
C39_LateCallGetsCurrent ==
  [][\A c \in Callers :
       (loads.callers[c].pc = "idle" /\ loads.cur # 0
          /\ loads'.callers[c].pc = "done")
         => loads'.callers[c].handle = loads.cur]_vars

\* dbInstance is the database created last
C39_LastCreatedWins ==
  /\ loads.cur = Len(loads.inst)
  /\ loads.cur # 0 => dbInstance = loads.inst[loads.cur]
====
